---- MODULE Spec2Model ----
(***************************************************************************)
(* Invario ledger: the hash-chained append-only LedgerStore, the integrity *)
(* verifier and the PostgreSQL-backed repository.                          *)
(*                                                                         *)
(* Strings are sequences of tokens (TLA+ strings).  SHA-256 is idealised   *)
(* as a collision-free function: the digest of a text is the text behind a *)
(* marker token, so two digests are equal iff the hashed texts are equal.  *)
(***************************************************************************)
EXTENDS Integers, Sequences, FiniteSets, TLC

\* ------------------------------------------------------------------ bounds
MaxCalls == 3
MaxThreadCalls == 2
MaxSaves == 3
NumThreads == 2
NumSessions == 2

Threads == 1..NumThreads
Sessions == 1..NumSessions
\* the universes the callers' inputs and the tampered timestamps are drawn from
TxIds == {1, 2}
Instants == {0, 1}
Descriptions == {<<>>, <<"n", "o", "t", "e">>}

\* ----------------------------------------------------------- text helpers
Digits == <<"0", "1", "2", "3", "4", "5", "6", "7", "8", "9">>

RECURSIVE StrNat(_)
StrNat(n) == IF n < 10 THEN <<Digits[n + 1]>>
             ELSE StrNat(n \div 10) \o <<Digits[(n % 10) + 1]>>

\* str(int)
StrInt(n) == IF n < 0 THEN <<"-">> \o StrNat(0 - n) ELSE StrNat(n)

\* str(UUID): an injective rendering of the identifier
StrUuid(u) == <<"u">> \o StrNat(u)

\* datetime.isoformat(): the instant, then the offset of an aware datetime
isoformat(ts) == <<"T">> \o StrNat(ts.instant)
                 \o (IF ts.tzinfo = "UTC" THEN <<"+00:00">> ELSE <<>>)

\* date.isoformat()
dateiso(d) == <<"D">> \o StrNat(d)

\* str(Decimal) of an amount held in cents with two fractional digits
StrDecimal(c) == StrNat(c \div 100) \o <<".">>
                 \o <<Digits[((c % 100) \div 10) + 1], Digits[(c % 10) + 1]>>

\* the f-string "a|b|c...": the fields joined by "|"
RECURSIVE JoinParts(_)
JoinParts(parts) == IF Len(parts) = 0 THEN <<>>
                    ELSE IF Len(parts) = 1 THEN parts[1]
                    ELSE parts[1] \o <<"|">> \o JoinParts(Tail(parts))
\* the fields are evaluated once, before they are joined
JoinBar(parts) == CHOOSE text \in {JoinParts(p) : p \in {parts}} : TRUE

\* hashlib.sha256(text).hexdigest(), collision-free
sha256 == [marker |-> "#"]
SHA256(text) == <<sha256.marker>> \o text

GENESIS_HASH == [i \in 1..64 |-> "0"]

\* ----------------------------------------------------------- Transaction
Transaction(id, key, desc) ==
    [id |-> id, type |-> <<"credit">>, amount |-> 10000,
     currency |-> <<"B", "R", "L">>, source_account |-> <<"A">>,
     target_account |-> <<"B">>, document |-> <<"D", "O", "C">>,
     settlement_date |-> 1, description |-> desc, idempotency_key |-> key,
     bank_code |-> <<"0", "0", "1">>, raw_line |-> <<>>]

Transactions == {Transaction(i, k, d) : i \in TxIds, k \in TxIds, d \in Descriptions}

\* what callers hand to the in-memory store: three contents, one of them twice
\* with different descriptions
StoreInputs == {tx \in Transactions :
                  /\ tx.id <= tx.idempotency_key
                  /\ tx.description # <<>> => tx.id = tx.idempotency_key /\ tx.id = 1}

\* a digest that takes the description and the raw line in
content_hash_with_metadata(tx) ==
    SHA256(JoinBar(<<StrUuid(tx.id), tx.type, StrDecimal(tx.amount),
                     tx.currency, tx.source_account, tx.target_account,
                     tx.document, dateiso(tx.settlement_date),
                     StrUuid(tx.idempotency_key), tx.bank_code,
                     tx.description, tx.raw_line>>))

content_hash(tx) ==
    SHA256(JoinBar(<<StrUuid(tx.id), tx.type, StrDecimal(tx.amount),
                     tx.currency, tx.source_account, tx.target_account,
                     tx.document, dateiso(tx.settlement_date),
                     StrUuid(tx.idempotency_key), tx.bank_code>>))

\* ----------------------------------------------------------- LedgerEntry
LedgerEntry(id, txh, prevh, ts, seq, eh) ==
    [id |-> id, transaction_hash |-> txh, previous_hash |-> prevh,
     timestamp |-> ts, sequence_number |-> seq, entry_hash |-> eh]

\* a digest that leaves the timestamp out
compute_hash_no_timestamp(e) ==
    SHA256(JoinBar(<<StrUuid(e.id), e.transaction_hash, e.previous_hash,
                     StrInt(e.sequence_number)>>))

compute_hash(e) ==
    SHA256(JoinBar(<<StrUuid(e.id), e.transaction_hash, e.previous_hash,
                     isoformat(e.timestamp), StrInt(e.sequence_number)>>))

\* a factory that hashes the entry under the next sequence number
create_shifted(id, txh, prevh, ts, seq) ==
    LedgerEntry(id, txh, prevh, ts, seq,
                compute_hash(LedgerEntry(id, txh, prevh, ts, seq + 1, <<>>)))

create(id, txh, prevh, ts, seq) ==
    LET entry_without_hash == LedgerEntry(id, txh, prevh, ts, seq, <<>>)
    IN  LedgerEntry(id, txh, prevh, ts, seq, compute_hash(entry_without_hash))

\* datetime.now(tz=timezone.utc): the clock reads the number of calls made so far
UtcNow(i) == [instant |-> i, tzinfo |-> "UTC"]

NoEntry == LedgerEntry(0, <<>>, <<>>, [instant |-> 0, tzinfo |-> "None"], -1, <<>>)

\* Result values of the ledger operations
Ok(entry) == [ok |-> TRUE, entry |-> entry, reason |-> "ok"]
Err(reason) == [ok |-> FALSE, entry |-> NoEntry, reason |-> reason]
NoResult == [ok |-> FALSE, entry |-> NoEntry, reason |-> "none"]

\* ------------------------------------------------------------------ state
VARIABLES
    entries,             \* LedgerStore._entries
    transaction_hashes,  \* LedgerStore._transaction_hashes
    pc,                  \* per caller: position inside LedgerStore.append
    frame,               \* per caller: the locals of its append call
    result,              \* per caller: what its last append returned
    calls,               \* number of append / save_transaction calls made
    uuids,               \* number of uuid4() values drawn
    rdPc, rdEntries, rdTx, rdContains,   \* a reader of the store
    auPc, auInput, auTamper, auResult,   \* an auditor running verify_chain
    dbHead,              \* committed row of table ledger_head (id = 1)
    dbTxs,               \* committed rows of table transactions
    dbEntries,           \* committed rows of table ledger_entries
    headLock,            \* session holding the row lock on the head, 0 if none
    headInsertBy,        \* session with an uncommitted INSERT of the head, 0 if none
    spc,                 \* per session: position inside save_transaction
    sframe,              \* per session: the locals of its save_transaction call
    sresult,             \* per session: what its last save_transaction returned
    prContent,           \* the content handed to a parser
    prFormat,            \* the parser applied to it, "none" before the call
    prResult,            \* what the parser returned
    ingFile,             \* the file of the ingestion job
    ingOutcome,          \* what ingest_file returned for it
    wkPc,                \* position of process_ingestion_job
    wkIndex,             \* position of its loop over the validated batch
    wkSaveCalls,         \* save_transaction calls the job has made
    wkBefore,            \* the ledger rows and head when the job started
    ingFormat,           \* the parser ingest_file chose for the file
    dtFile,              \* the arguments of a call of _detect_format
    dtFormat,            \* what that call returned
    prPrev,              \* what the previous parse of the same content returned
    csvIngests,          \* ingestions of the delimited file so far
    csvIndex,            \* next transaction of the parsed batch to append
    csvSize,             \* size of the ledger when the current ingestion began
    cmpArgs,             \* the matcher and the pair of a compare call
    cmpResult,           \* what compare returned
    recArgs,             \* the matcher and the two lists of a reconcile call
    recReport,           \* the report reconcile returned
    chTx,                \* the two transactions whose content_hash is taken
    chOut,               \* the content_hash calls made and what each returned
    gdDocument,          \* the document handed to guard_cpf_cnpj
    gdResult,            \* what guard_cpf_cnpj made of it
    lnLine,              \* the fixed-width line handed to _parse_segment_a
    lnOut                \* the fields it read and what it returned

memVars == <<entries, transaction_hashes, pc, frame, result>>
rdVars == <<rdPc, rdEntries, rdTx, rdContains>>
auVars == <<auPc, auInput, auTamper, auResult>>
dbVars == <<dbHead, dbTxs, dbEntries>>
pgVars == <<dbVars, headLock, headInsertBy, spc, sframe, sresult>>
prVars == <<prContent, prFormat, prResult>>
ingVars == <<ingFile, ingOutcome, wkPc, wkIndex, wkSaveCalls, wkBefore, ingFormat,
             dtFile, dtFormat>>
csvVars == <<prPrev, csvIngests, csvIndex, csvSize>>
recVars == <<cmpArgs, cmpResult, recArgs, recReport>>
hashVars == <<chTx, chOut>>
gdVars == <<gdDocument, gdResult>>
lnVars == <<lnLine, lnOut>>
fnVars == <<hashVars, gdVars, lnVars>>
extVars == <<prVars, ingVars, csvVars, recVars, fnVars>>
vars == <<memVars, calls, uuids, rdVars, auVars, pgVars, extVars>>

NoFrame == [tx_hash |-> <<>>, entry |-> NoEntry]
NoTamper == [index |-> -1, field |-> "none"]

\* --------------------------------------------------------- LedgerStore
\* LedgerStore.size
size(es) == Len(es)

\* a store that links every entry to genesis
last_hash_genesis(es) == GENESIS_HASH

\* LedgerStore.last_hash
last_hash(es) == IF Len(es) > 0 THEN es[Len(es)].entry_hash ELSE GENESIS_HASH

\* LedgerStore.get_entry
get_entry(es, sequence_number) ==
    IF sequence_number < 0 \/ sequence_number >= size(es)
    THEN Err("out of range")
    ELSE Ok(es[sequence_number + 1])

\* LedgerStore.contains_transaction
contains_transaction(hashes, tx) == content_hash(tx) \in hashes

\* a list whose append overwrites the last element
ListAppend_overwrite(es, e) ==
    IF Len(es) > 0 THEN [es EXCEPT ![Len(es)] = e] ELSE <<e>>

\* list.append(entry)
ListAppend(es, e) == Append(es, e)

\* append, line 90: the call starts and hashes its argument
Call(t, tx, limit) ==
    /\ pc[t] = "idle"
    /\ calls < limit
    /\ calls' = calls + 1
    /\ pc' = [pc EXCEPT ![t] = "check"]
    /\ frame' = [frame EXCEPT ![t] = [NoFrame EXCEPT !.tx_hash = content_hash(tx)]]
    /\ result' = [result EXCEPT ![t] = NoResult]
    /\ UNCHANGED <<extVars, entries, transaction_hashes, uuids, rdVars, auVars, pgVars>>

\* an append without the duplicate guard
CheckDuplicate_missing(t) ==
    /\ pc[t] = "check"
    /\ pc' = [pc EXCEPT ![t] = "last_hash"]
    /\ UNCHANGED <<extVars, entries, transaction_hashes, result, frame, calls, uuids,
                   rdVars, auVars, pgVars>>

\* append, lines 93-96: the duplicate guard
CheckDuplicate(t) ==
    /\ pc[t] = "check"
    /\ IF frame[t].tx_hash \in transaction_hashes
       THEN /\ result' = [result EXCEPT ![t] = Err("Duplicate transaction detected")]
            /\ pc' = [pc EXCEPT ![t] = "idle"]
            /\ frame' = [frame EXCEPT ![t] = NoFrame]
       ELSE /\ pc' = [pc EXCEPT ![t] = "last_hash"]
            /\ UNCHANGED <<result, frame>>
    /\ UNCHANGED <<extVars, entries, transaction_hashes, calls, uuids, rdVars, auVars, pgVars>>

\* append, lines 100-102: entry_id=uuid4(), previous_hash=self.last_hash
ReadLastHash(t) ==
    /\ pc[t] = "last_hash"
    /\ uuids' = uuids + 1
    /\ frame' = [frame EXCEPT ![t].entry =
                    LedgerEntry(uuids + 1, frame[t].tx_hash, last_hash(entries),
                                NoEntry.timestamp, -1, <<>>)]
    /\ pc' = [pc EXCEPT ![t] = "size"]
    /\ UNCHANGED <<extVars, entries, transaction_hashes, result, calls, rdVars, auVars, pgVars>>

\* append, lines 99-105: timestamp=now, sequence_number=self.size, create()
ReadSizeAndCreate(t) ==
    /\ pc[t] = "size"
    /\ frame' = [frame EXCEPT ![t].entry =
                    create(frame[t].entry.id, frame[t].tx_hash,
                           frame[t].entry.previous_hash, UtcNow(calls), size(entries))]
    /\ pc' = [pc EXCEPT ![t] = "insert"]
    /\ UNCHANGED <<extVars, entries, transaction_hashes, result, calls, uuids, rdVars, auVars, pgVars>>

\* append, line 107: self._entries.append(entry)
InsertEntry(t) ==
    /\ pc[t] = "insert"
    /\ entries' = ListAppend(entries, frame[t].entry)
    /\ pc' = [pc EXCEPT ![t] = "add"]
    /\ UNCHANGED <<extVars, transaction_hashes, frame, result, calls, uuids, rdVars, auVars, pgVars>>

\* an append that returns Ok without recording the hash
AddHashAndReturn_forgetful(t) ==
    /\ pc[t] = "add"
    /\ transaction_hashes' = transaction_hashes
    /\ result' = [result EXCEPT ![t] = Ok(frame[t].entry)]
    /\ pc' = [pc EXCEPT ![t] = "idle"]
    /\ frame' = [frame EXCEPT ![t] = NoFrame]
    /\ UNCHANGED <<extVars, entries, calls, uuids, rdVars, auVars, pgVars>>

\* append, lines 108-109: self._transaction_hashes.add(tx_hash); return Ok(entry)
AddHashAndReturn(t) ==
    /\ pc[t] = "add"
    /\ transaction_hashes' = transaction_hashes \cup {frame[t].tx_hash}
    /\ result' = [result EXCEPT ![t] = Ok(frame[t].entry)]
    /\ pc' = [pc EXCEPT ![t] = "idle"]
    /\ frame' = [frame EXCEPT ![t] = NoFrame]
    /\ UNCHANGED <<extVars, entries, calls, uuids, rdVars, auVars, pgVars>>

\* ---------------------------------------------------- IntegrityVerifier
IntegrityOk ==
    [ok |-> TRUE, sequence_number |-> -1, expected_hash |-> <<>>,
     actual_hash |-> <<>>, violation_type |-> "none"]

IntegrityError(seq, expected, actual, kind) ==
    [ok |-> FALSE, sequence_number |-> seq, expected_hash |-> expected,
     actual_hash |-> actual, violation_type |-> kind]

verify_entry_hash(entry) ==
    LET computed == compute_hash(entry)
    IN  IF entry.entry_hash # computed
        THEN IntegrityError(entry.sequence_number, computed, entry.entry_hash,
                            "entry_hash_mismatch")
        ELSE IntegrityOk

\* previous is <<>> for None, <<e>> for an entry
verify_chain_link(current, previous) ==
    LET expected_previous_hash ==
            IF previous # <<>> THEN previous[1].entry_hash ELSE GENESIS_HASH
    IN  IF current.previous_hash # expected_previous_hash
        THEN IntegrityError(current.sequence_number, expected_previous_hash,
                            current.previous_hash, "chain_link_broken")
        ELSE IntegrityOk

\* verify_chain, lines 111-118: the first loop, from 0-based index i
RECURSIVE CheckSequenceNumbers(_, _)
CheckSequenceNumbers(es, i) ==
    IF i >= Len(es) THEN IntegrityOk
    ELSE IF es[i + 1].sequence_number # i
         THEN IntegrityError(i, StrInt(i), StrInt(es[i + 1].sequence_number),
                             "sequence_gap")
         ELSE CheckSequenceNumbers(es, i + 1)

\* verify_chain, lines 121-137: the second loop, from 0-based index i
RECURSIVE WalkChain(_, _)
WalkChain(es, i) ==
    IF i >= Len(es) THEN IntegrityOk
    ELSE LET hash_result == verify_entry_hash(es[i + 1])
             previous == IF i > 0 THEN <<es[i]>> ELSE <<>>
             link_result == verify_chain_link(es[i + 1], previous)
         IN  IF ~hash_result.ok THEN hash_result
             ELSE IF ~link_result.ok THEN link_result
             ELSE WalkChain(es, i + 1)

\* a verifier with one loop: each entry's number, hash and link in turn
RECURSIVE WalkChainWithNumbers(_, _)
WalkChainWithNumbers(es, i) ==
    IF i >= Len(es) THEN IntegrityOk
    ELSE LET hash_result == verify_entry_hash(es[i + 1])
             previous == IF i > 0 THEN <<es[i]>> ELSE <<>>
             link_result == verify_chain_link(es[i + 1], previous)
         IN  IF es[i + 1].sequence_number # i
             THEN IntegrityError(i, StrInt(i), StrInt(es[i + 1].sequence_number),
                                 "sequence_gap")
             ELSE IF ~hash_result.ok THEN hash_result
             ELSE IF ~link_result.ok THEN link_result
             ELSE WalkChainWithNumbers(es, i + 1)
verify_chain_one_pass(es) == WalkChainWithNumbers(es, 0)

verify_chain(es) ==
    IF Len(es) = 0 THEN IntegrityOk
    ELSE LET gaps == CheckSequenceNumbers(es, 0)
         IN  IF ~gaps.ok THEN gaps ELSE WalkChain(es, 0)

\* ------------------------------------------------------------- a reader
\* LedgerStore.entries: tuple(self._entries)
ReadEntries ==
    /\ rdPc = "idle"
    /\ calls < MaxThreadCalls
    /\ calls' = calls + 1
    /\ rdEntries' = entries
    /\ rdPc' = "contains"
    /\ UNCHANGED <<extVars, memVars, uuids, rdTx, rdContains, auVars, pgVars>>

\* LedgerStore.contains_transaction
ReadContains(tx) ==
    /\ rdPc = "contains"
    /\ rdTx' = tx
    /\ rdContains' = contains_transaction(transaction_hashes, tx)
    /\ rdPc' = "done"
    /\ UNCHANGED <<extVars, memVars, calls, uuids, rdEntries, auVars, pgVars>>

ReaderReturn ==
    /\ rdPc = "done"
    /\ rdPc' = "idle"
    /\ rdEntries' = <<>>
    /\ rdTx' = Transaction(0, 0, <<>>)
    /\ rdContains' = FALSE
    /\ UNCHANGED <<extVars, memVars, calls, uuids, auVars, pgVars>>

\* ------------------------------------------------------------ an auditor
Fields == {"id", "transaction_hash", "previous_hash", "timestamp",
           "sequence_number", "entry_hash"}

\* the values a stored field can be overwritten with
FieldValues(es, field) ==
    CASE field = "id" -> 0..(Len(es) + 1)
      [] field = "transaction_hash" ->
             {content_hash(tx) : tx \in Transactions} \cup {<<"x">>}
      [] field \in {"previous_hash", "entry_hash"} ->
             {GENESIS_HASH, <<"x">>} \cup {es[i].entry_hash : i \in 1..Len(es)}
                 \cup {es[i].previous_hash : i \in 1..Len(es)}
      [] field = "timestamp" ->
             {[instant |-> i, tzinfo |-> z] : i \in Instants, z \in {"UTC", "None"}}
      [] field = "sequence_number" -> 0..(Len(es) + 1)

\* entry.model_copy(update={field: value}) at 1-based position i
Tampered(es, i, field, value) ==
    [es EXCEPT ![i] = [es[i] EXCEPT ![field] = value]]

AllIdle == (\A t \in Threads : pc[t] = "idle") /\ auPc = "idle"

\* the thread of the sequential callers
Caller == CHOOSE t \in Threads : \A u \in Threads : t <= u

\* the auditor reads store.entries
AuditFetch ==
    /\ AllIdle
    /\ auInput' = entries
    /\ auPc' = "fetched"
    /\ UNCHANGED <<extVars, memVars, calls, uuids, rdVars, pgVars, auTamper, auResult>>

\* one field of one entry of the audited copy is overwritten
AuditTamper(i, field, value) ==
    /\ auPc = "fetched"
    /\ i \in 1..Len(auInput)
    /\ auInput[i][field] # value
    /\ auInput' = Tampered(auInput, i, field, value)
    /\ auTamper' = [index |-> i - 1, field |-> field]
    /\ auPc' = "tampered"
    /\ UNCHANGED <<extVars, memVars, calls, uuids, rdVars, pgVars, auResult>>

AuditVerify ==
    /\ auPc \in {"fetched", "tampered"}
    /\ auResult' = verify_chain(auInput)
    /\ auPc' = "verified"
    /\ UNCHANGED <<extVars, memVars, calls, uuids, rdVars, pgVars, auInput, auTamper>>

AuditReturn ==
    /\ auPc = "verified"
    /\ auPc' = "idle"
    /\ auInput' = <<>>
    /\ auTamper' = NoTamper
    /\ auResult' = IntegrityOk
    /\ UNCHANGED <<extVars, memVars, calls, uuids, rdVars, pgVars>>

\* The sequences verify_chain is called on directly, built entry by entry as
\* the tests build them: each entry carries its position or the next number,
\* the hash of the entry before it or another one, and its own hash either
\* computed or stale.
MaxAuditLen == 3
AuditEntries(chain) ==
    {LET raw == LedgerEntry(Len(chain) + 1, content_hash(Transaction(1, 1, <<>>)),
                            prev, UtcNow(Len(chain)), seq, <<>>)
     IN  [raw EXCEPT !.entry_hash = IF stale THEN <<"x">> ELSE compute_hash(raw)] :
        seq \in {Len(chain), Len(chain) + 1},
        prev \in {IF chain = <<>> THEN GENESIS_HASH
                  ELSE chain[Len(chain)].entry_hash, <<"W">>},
        stale \in BOOLEAN}
RECURSIVE AuditChains(_)
AuditChains(n) ==
    IF n = 0 THEN {<<>>}
    ELSE LET shorter == AuditChains(n - 1)
         IN  shorter \cup UNION {{Append(chain, e) : e \in AuditEntries(chain)} :
                                    chain \in {c \in shorter : Len(c) = n - 1}}
AuditInputs == AuditChains(MaxAuditLen)

\* ------------------------------------------- PostgresLedgerRepository
\* what callers hand to the durable ledger: every id / idempotency key pairing
PgInputs == {tx \in Transactions : tx.description = <<>>}

NoHead == [exists |-> FALSE, last_sequence_number |-> -1, last_entry_hash |-> GENESIS_HASH]

\* LedgerHeadModel(id=1, ...)
LedgerHeadModel(seq, hash) ==
    [exists |-> TRUE, last_sequence_number |-> seq, last_entry_hash |-> hash]

\* TransactionModel(...): the transaction's columns and its content hash
TransactionModel(tx) == [content_hash |-> content_hash(tx)] @@ tx

\* LedgerEntryModel(...): the timestamp is stored naive
LedgerEntryModel(e, transaction_id) ==
    [id |-> e.id, sequence_number |-> e.sequence_number,
     transaction_id |-> transaction_id,
     transaction_hash |-> e.transaction_hash, previous_hash |-> e.previous_hash,
     entry_hash |-> e.entry_hash,
     timestamp |-> [e.timestamp EXCEPT !.tzinfo = "None"]]

\* the conversion of a row back to the domain entry (get_entry, get_all_entries)
ToDomain(m) ==
    LedgerEntry(m.id, m.transaction_hash, m.previous_hash,
                [m.timestamp EXCEPT !.tzinfo = "UTC"], m.sequence_number,
                m.entry_hash)

\* select(LedgerEntryModel).order_by(sequence_number), converted
RECURSIVE OrderBySequence(_)
OrderBySequence(rows) ==
    IF rows = {} THEN <<>>
    ELSE LET m == CHOOSE r \in rows :
                    \A q \in rows : r.sequence_number <= q.sequence_number
         IN  <<ToDomain(m)>> \o OrderBySequence(rows \ {m})

pg_get_all_entries == OrderBySequence(dbEntries)

\* PostgresLedgerRepository.get_entry
pg_get_entry(sequence_number) ==
    LET found == {m \in dbEntries : m.sequence_number = sequence_number}
    IN  IF found = {} THEN Err("not found")
        ELSE Ok(ToDomain(CHOOSE m \in found : TRUE))

\* PostgresLedgerRepository.contains
pg_contains(tx) == \E r \in dbTxs : r.content_hash = content_hash(tx)

NoSFrame == [tx |-> Transaction(0, 0, <<>>), head |-> NoHead, sawRow |-> FALSE,
             entry |-> NoEntry]

\* the unique and primary-key constraints an INSERT of the rows would break
Violations(txm, em) ==
    {c \in {"transactions_pkey", "transactions_idempotency_key_key",
            "transactions_content_hash_key", "ledger_entries_pkey",
            "ledger_entries_transaction_id_key", "ledger_entries_entry_hash_key"} :
        \/ c = "transactions_pkey" /\ \E r \in dbTxs : r.id = txm.id
        \/ c = "transactions_idempotency_key_key"
             /\ \E r \in dbTxs : r.idempotency_key = txm.idempotency_key
        \/ c = "transactions_content_hash_key"
             /\ \E r \in dbTxs : r.content_hash = txm.content_hash
        \/ c = "ledger_entries_pkey"
             /\ \E m \in dbEntries : m.sequence_number = em.sequence_number
        \/ c = "ledger_entries_transaction_id_key"
             /\ \E m \in dbEntries : m.transaction_id = em.transaction_id
        \/ c = "ledger_entries_entry_hash_key"
             /\ \E m \in dbEntries : m.entry_hash = em.entry_hash}

\* save_transaction, lines 128-134: the error returned for a broken constraint
IntegrityMessage(c) ==
    CASE c = "transactions_content_hash_key" -> "Duplicate transaction"
      [] c = "transactions_idempotency_key_key" -> "Duplicate idempotency key"
      [] OTHER -> "Database integrity error"

\* a rollback that leaves the head row it had inserted in place
Rollback_keeps_head(s) ==
    /\ headLock' = (IF headLock = s THEN 0 ELSE headLock)
    /\ headInsertBy' = (IF headInsertBy = s THEN 0 ELSE headInsertBy)
    /\ dbHead' = (IF headInsertBy = s THEN LedgerHeadModel(-1, GENESIS_HASH) ELSE dbHead)
    /\ UNCHANGED <<dbTxs, dbEntries>>

\* session.rollback(): pending rows are discarded and the row locks released
Rollback(s) ==
    /\ headLock' = (IF headLock = s THEN 0 ELSE headLock)
    /\ headInsertBy' = (IF headInsertBy = s THEN 0 ELSE headInsertBy)
    /\ UNCHANGED <<dbHead, dbTxs, dbEntries>>

\* the except branches: rollback, return Err
FailWith(s, reason) ==
    /\ Rollback(s)
    /\ sresult' = [sresult EXCEPT ![s] = Err(reason)]
    /\ spc' = [spc EXCEPT ![s] = "idle"]
    /\ sframe' = [sframe EXCEPT ![s] = NoSFrame]

\* save_transaction is called on a session
PgCall(s, tx) ==
    /\ spc[s] = "idle"
    /\ calls < MaxSaves
    /\ calls' = calls + 1
    /\ spc' = [spc EXCEPT ![s] = "select"]
    /\ sframe' = [sframe EXCEPT ![s] = [NoSFrame EXCEPT !.tx = tx]]
    /\ sresult' = [sresult EXCEPT ![s] = NoResult]
    /\ UNCHANGED <<extVars, memVars, uuids, rdVars, auVars, dbVars, headLock, headInsertBy>>

\* a SELECT of the head row that takes no lock
PgSelectHead_unlocked(s) ==
    /\ spc[s] = "select"
    /\ IF dbHead.exists
       THEN /\ sframe' = [sframe EXCEPT ![s].head = dbHead, ![s].sawRow = TRUE]
            /\ spc' = [spc EXCEPT ![s] = "build"]
       ELSE /\ spc' = [spc EXCEPT ![s] = "create_head"]
            /\ UNCHANGED sframe
    /\ UNCHANGED <<extVars, memVars, calls, uuids, rdVars, auVars, dbVars, sresult,
                   headLock, headInsertBy>>

\* _get_or_create_head, lines 42-47: SELECT ... WHERE id = 1 FOR UPDATE.
\* A committed row is returned once its lock is free; without one the
\* statement returns no row and waits for nothing.
PgSelectHeadForUpdate(s) ==
    /\ spc[s] = "select"
    /\ IF dbHead.exists
       THEN /\ headLock = 0
            /\ headLock' = s
            /\ sframe' = [sframe EXCEPT ![s].head = dbHead, ![s].sawRow = TRUE]
            /\ spc' = [spc EXCEPT ![s] = "build"]
       ELSE /\ spc' = [spc EXCEPT ![s] = "create_head"]
            /\ UNCHANGED <<headLock, sframe>>
    /\ UNCHANGED <<extVars, memVars, calls, uuids, rdVars, auVars, dbVars, sresult,
                   headInsertBy>>

\* _get_or_create_head, lines 49-57: INSERT of the genesis head and flush.
\* The INSERT waits for an uncommitted INSERT of the same key and fails on a
\* committed one (save_transaction, lines 128-134).
PgCreateHead(s) ==
    /\ spc[s] = "create_head"
    /\ IF dbHead.exists
       THEN /\ FailWith(s, "Database integrity error")
       ELSE /\ headInsertBy = 0
            /\ headInsertBy' = s
            /\ sframe' = [sframe EXCEPT ![s].head = LedgerHeadModel(-1, GENESIS_HASH)]
            /\ spc' = [spc EXCEPT ![s] = "build"]
            /\ UNCHANGED <<dbVars, headLock, sresult>>
    /\ UNCHANGED <<extVars, memVars, calls, uuids, rdVars, auVars>>

\* save_transaction, lines 78-121: the rows are built and the head advanced
\* in the session
PgBuild(s) ==
    /\ spc[s] = "build"
    /\ uuids' = uuids + 1
    /\ LET head == sframe[s].head
           new_seq == head.last_sequence_number + 1
           entry_domain == create(uuids + 1, content_hash(sframe[s].tx),
                                  head.last_entry_hash, UtcNow(calls), new_seq)
       IN  sframe' = [sframe EXCEPT
                        ![s].entry = entry_domain,
                        ![s].head = LedgerHeadModel(new_seq, entry_domain.entry_hash)]
    /\ spc' = [spc EXCEPT ![s] = "commit"]
    /\ UNCHANGED <<extVars, memVars, calls, rdVars, auVars, dbVars, sresult, headLock,
                   headInsertBy>>

\* a commit that leaves the row lock on the head with the session
PgCommit_keeps_lock(s) ==
    /\ spc[s] = "commit"
    /\ LET txm == TransactionModel(sframe[s].tx)
           em == LedgerEntryModel(sframe[s].entry, txm.id)
           broken == Violations(txm, em)
       IN  IF broken # {}
           THEN \E c \in broken : FailWith(s, IntegrityMessage(c))
           ELSE /\ dbTxs' = dbTxs \cup {txm}
                /\ dbEntries' = dbEntries \cup {em}
                /\ dbHead' = LedgerHeadModel(sframe[s].entry.sequence_number,
                                             sframe[s].entry.entry_hash)
                /\ headLock' = (IF dbHead.exists THEN s ELSE headLock)
                /\ headInsertBy' = (IF headInsertBy = s THEN 0 ELSE headInsertBy)
                /\ sresult' = [sresult EXCEPT ![s] = Ok(sframe[s].entry)]
                /\ spc' = [spc EXCEPT ![s] = "idle"]
                /\ sframe' = [sframe EXCEPT ![s] = NoSFrame]
    /\ UNCHANGED <<extVars, memVars, calls, uuids, rdVars, auVars>>

\* a commit that writes the rows and leaves the head row as it was
PgCommit_keeps_head(s) ==
    /\ spc[s] = "commit"
    /\ LET txm == TransactionModel(sframe[s].tx)
           em == LedgerEntryModel(sframe[s].entry, txm.id)
           broken == Violations(txm, em)
       IN  IF broken # {}
           THEN \E c \in broken : FailWith(s, IntegrityMessage(c))
           ELSE /\ dbTxs' = dbTxs \cup {txm}
                /\ dbEntries' = dbEntries \cup {em}
                /\ dbHead' = dbHead
                /\ headLock' = (IF headLock = s THEN 0 ELSE headLock)
                /\ headInsertBy' = (IF headInsertBy = s THEN 0 ELSE headInsertBy)
                /\ sresult' = [sresult EXCEPT ![s] = Ok(sframe[s].entry)]
                /\ spc' = [spc EXCEPT ![s] = "idle"]
                /\ sframe' = [sframe EXCEPT ![s] = NoSFrame]
    /\ UNCHANGED <<extVars, memVars, calls, uuids, rdVars, auVars>>

\* save_transaction, lines 124-134: flush and COMMIT, or the constraint error
PgCommit(s) ==
    /\ spc[s] = "commit"
    /\ LET txm == TransactionModel(sframe[s].tx)
           em == LedgerEntryModel(sframe[s].entry, txm.id)
           broken == Violations(txm, em)
       IN  IF broken # {}
           THEN \E c \in broken : FailWith(s, IntegrityMessage(c))
           ELSE /\ dbTxs' = dbTxs \cup {txm}
                /\ dbEntries' = dbEntries \cup {em}
                /\ dbHead' = sframe[s].head
                /\ headLock' = (IF headLock = s THEN 0 ELSE headLock)
                /\ headInsertBy' = (IF headInsertBy = s THEN 0 ELSE headInsertBy)
                /\ sresult' = [sresult EXCEPT ![s] = Ok(sframe[s].entry)]
                /\ spc' = [spc EXCEPT ![s] = "idle"]
                /\ sframe' = [sframe EXCEPT ![s] = NoSFrame]
    /\ UNCHANGED <<extVars, memVars, calls, uuids, rdVars, auVars>>

\* save_transaction, lines 136-138: a statement fails in the persistence layer
PgPersistenceFailure(s) ==
    /\ spc[s] \in {"select", "create_head", "commit"}
    /\ FailWith(s, "Persistence failure")
    /\ UNCHANGED <<extVars, memVars, calls, uuids, rdVars, auVars>>

\* ------------------------------------------------------------ ingestion
\* records per file
MaxRows == 2

\* date.today() as a day number, and the oldest settlement date accepted
Today == 1000
max_past_days == 365

\* str.strip(): the text without its leading and trailing blanks
RECURSIVE strip(_)
strip(text) ==
    IF text = <<>> THEN <<>>
    ELSE IF Head(text) = " " THEN strip(Tail(text))
    ELSE IF text[Len(text)] = " " THEN strip(SubSeq(text, 1, Len(text) - 1))
    ELSE text

\* str.upper() on the letters the inputs use
UpperChar(ch) ==
    CASE ch = "b" -> "B" [] ch = "r" -> "R" [] ch = "l" -> "L"
      [] ch = "c" -> "C" [] ch = "s" -> "S" [] ch = "v" -> "V"
      [] ch = "x" -> "X"
      [] OTHER -> ch
Upper(text) == [i \in DOMAIN text |-> UpperChar(text[i])]

\* str.lower() on the letters the inputs use
LowerChar(ch) ==
    CASE ch = "B" -> "b" [] ch = "R" -> "r" [] ch = "L" -> "l"
      [] ch = "C" -> "c" [] ch = "S" -> "s" [] ch = "V" -> "v"
      [] OTHER -> ch
Lower(text) == [i \in DOMAIN text |-> LowerChar(text[i])]

\* One record of an input file: a delimited row, a JSON object or a
\* fixed-width line, held as the fields the parsers read from it.  line_len,
\* record_type and segment are the length of a fixed-width line and its
\* characters at positions 7 and 13 (length 0: a blank line); amount.numeric tells whether the amount
\* text is a number, settlement_date.valid whether the date text is a date.
GoodRecord ==
    [line_len |-> 240, record_type |-> "3", segment |-> "A",
     type |-> <<"credit">>, amount |-> [numeric |-> TRUE, cents |-> 10050],
     currency |-> <<"b", "r", "l">>, source_account |-> <<"1", "2", "3">>,
     target_account |-> <<"4", "5", "6">>,
     document |-> <<"5", "2", "9", "9", "8", "2", "2", "4", "7", "2", "5">>,
     settlement_date |-> [valid |-> TRUE, day |-> Today - 1],
     bank_code |-> <<"0", "0", "1">>, idempotency_key |-> 0,
     description |-> <<>>]

\* the records the input files are made of
RecordSeq ==
    <<GoodRecord,
      [GoodRecord EXCEPT !.amount.cents = 20000, !.segment = "J"],
      [GoodRecord EXCEPT !.amount.cents = 0],
      [GoodRecord EXCEPT !.currency = <<"x", "x", "x">>, !.type = <<"c">>],
      [GoodRecord EXCEPT !.bank_code = <<"1", "2">>],
      [GoodRecord EXCEPT !.document =
          <<"1", "2", "3", "4", "5", "6", "7", "8", "9", "0", "1">>],
      [GoodRecord EXCEPT !.settlement_date.day = Today + 1],
      [GoodRecord EXCEPT !.record_type = "0"],
      [GoodRecord EXCEPT !.settlement_date.valid = FALSE],
      [GoodRecord EXCEPT !.line_len = 400],
      [GoodRecord EXCEPT !.segment = "B"],
      [GoodRecord EXCEPT !.line_len = 0],
      [GoodRecord EXCEPT !.description = <<"n", "o", "t", "e">>]>>
Records == {RecordSeq[i] : i \in DOMAIN RecordSeq}

RECURSIVE SeqsUpTo(_, _)
SeqsUpTo(S, n) ==
    IF n = 0 THEN {<<>>}
    ELSE LET shorter == SeqsUpTo(S, n - 1)
         IN  shorter \cup {Append(q, x) : q \in shorter, x \in S}

\* The content of a file: its records under one of the layouts, with what
\* _detect_format reads of the text: the first character of the stripped
\* content, the length of its first line and whether that line holds a
\* comma or a semicolon.
Layouts == {"json", "cnab", "csv", "widecsv"}
Content(layout, records) ==
    [layout |-> layout, records |-> records,
     lead |-> CASE layout = "json" -> "["
                [] layout = "cnab" -> "0"
                [] layout = "empty" -> ""
                [] OTHER -> "t",
     first_line_len |-> CASE layout = "cnab" ->
                               (IF Len(records) > 0 THEN records[1].line_len ELSE 0)
                          [] layout = "widecsv" -> 300
                          [] layout = "json" -> 1
                          [] layout = "empty" -> 0
                          [] OTHER -> 90,
     first_line_sep |-> layout \in {"csv", "widecsv"}]
\* the records a layout can hold: only a fixed-width file has blank lines,
\* line lengths, record types and segments to vary
LayoutRecords(layout) ==
    IF layout = "cnab" THEN Records
    ELSE {r \in Records : r.line_len = 240 /\ r.record_type = "3"
                                            /\ r.segment \in {"A", "J"}}
Contents == UNION {{Content(l, r) : r \in SeqsUpTo(LayoutRecords(l), MaxRows)} :
                     l \in Layouts}
            \cup {Content("text", <<>>), Content("empty", <<>>)}

\* Result values of the parsers and of ingest_file
ParseOk(txs, u) ==
    [ok |-> TRUE, txs |-> txs, reason |-> "ok", index |-> -1, uuids |-> u]
ParseErr(reason, index, u) ==
    [ok |-> FALSE, txs |-> <<>>, reason |-> reason, index |-> index, uuids |-> u]
NoParse == ParseErr("none", -1, 0)

\* Transaction(...): the pydantic model accepts an amount above zero and
\* a currency of three characters
ModelAccepts(tx) == tx.amount > 0 /\ Len(tx.currency) = 3

\* uuid5(NAMESPACE_OID, prefix + the sorted column:value pairs of the row),
\* collision-free: the place of the row in the enumeration of all rows,
\* apart from every uuid4() value
RowCode(row) == CHOOSE i \in DOMAIN RecordSeq : RecordSeq[i] = row
uuid5(prefix, row) == 1000 + (2 * RowCode(row)) + (IF prefix = "tx" THEN 0 ELSE 1)

\* str(row), the raw line kept for the audit trail
RawLine(row) == <<"raw">> \o StrNat(RowCode(row))

\* csv_parser.TYPE_MAP and json_parser._TYPE_MAP
TYPE_MAP ==
    [t \in {<<"credit">>, <<"debit">>, <<"transfer">>, <<"c">>, <<"d">>, <<"t">>} |->
        CASE t \in {<<"credit">>, <<"c">>} -> <<"credit">>
          [] t \in {<<"debit">>, <<"d">>} -> <<"debit">>
          [] OTHER -> <<"transfer">>]
JSON_TYPE_MAP ==
    [t \in {<<"credit">>, <<"debit">>, <<"transfer">>} |-> t]

\* the parsers' result for one record
RowOk(tx, u) == [ok |-> TRUE, tx |-> tx, reason |-> "ok", uuids |-> u]
RowErr(reason, u) ==
    [ok |-> FALSE, tx |-> Transaction(0, 0, <<>>), reason |-> reason, uuids |-> u]

\* a row whose identity is drawn afresh for every parse
parse_csv_row_random(row, u) ==
    LET type_str == Lower(row.type)
    IN  IF type_str \notin DOMAIN TYPE_MAP THEN RowErr("Invalid transaction type", u)
        ELSE IF ~row.amount.numeric THEN RowErr("Invalid amount", u)
        ELSE IF row.amount.cents <= 0 THEN RowErr("Amount must be positive", u)
        ELSE IF ~row.settlement_date.valid THEN RowErr("Unknown date format", u)
        ELSE LET tx == [id |-> u + 2, type |-> TYPE_MAP[type_str],
                        amount |-> row.amount.cents,
                        currency |-> Upper(row.currency),
                        source_account |-> row.source_account,
                        target_account |-> row.target_account,
                        document |-> row.document,
                        settlement_date |-> row.settlement_date.day,
                        description |-> strip(row.description),
                        idempotency_key |-> IF row.idempotency_key # 0
                                            THEN row.idempotency_key ELSE u + 1,
                        bank_code |-> row.bank_code, raw_line |-> RawLine(row)]
             IN  IF ModelAccepts(tx) THEN RowOk(tx, u + 2)
                 ELSE RowErr("Unexpected error", u + 2)

\* csv_parser._parse_csv_row
parse_csv_row(row, u) ==
    LET type_str == Lower(row.type)
    IN  IF type_str \notin DOMAIN TYPE_MAP THEN RowErr("Invalid transaction type", u)
        ELSE IF ~row.amount.numeric THEN RowErr("Invalid amount", u)
        ELSE IF row.amount.cents <= 0 THEN RowErr("Amount must be positive", u)
        ELSE IF ~row.settlement_date.valid THEN RowErr("Unknown date format", u)
        ELSE LET tx == [id |-> uuid5("tx", row), type |-> TYPE_MAP[type_str],
                        amount |-> row.amount.cents,
                        currency |-> Upper(row.currency),
                        source_account |-> row.source_account,
                        target_account |-> row.target_account,
                        document |-> row.document,
                        settlement_date |-> row.settlement_date.day,
                        description |-> strip(row.description),
                        idempotency_key |-> IF row.idempotency_key # 0
                                            THEN row.idempotency_key
                                            ELSE uuid5("idem", row),
                        bank_code |-> row.bank_code, raw_line |-> RawLine(row)]
             IN  IF ModelAccepts(tx) THEN RowOk(tx, u)
                 ELSE RowErr("Unexpected error", u)

\* a loop that drops the failing row and goes on
RECURSIVE CsvRows_skipping(_, _, _, _)
CsvRows_skipping(rows, i, txs, u) ==
    IF i > Len(rows)
    THEN IF txs = <<>> THEN ParseErr("No data rows in CSV file", 0, u)
         ELSE ParseOk(txs, u)
    ELSE LET r == parse_csv_row(rows[i], u)
         IN  IF r.ok THEN CsvRows_skipping(rows, i + 1, Append(txs, r.tx), r.uuids)
             ELSE CsvRows_skipping(rows, i + 1, txs, r.uuids)

\* parse_csv_file, lines 232-248: the loop over the data rows; row 1 is the header
RECURSIVE CsvRows(_, _, _, _)
CsvRows(rows, i, txs, u) ==
    IF i > Len(rows)
    THEN IF txs = <<>> THEN ParseErr("No data rows in CSV file", 0, u)
         ELSE ParseOk(txs, u)
    ELSE LET r == parse_csv_row(rows[i], u)
         IN  IF r.ok THEN CsvRows(rows, i + 1, Append(txs, r.tx), r.uuids)
             ELSE ParseErr(r.reason, i + 1, r.uuids)

\* csv_parser.parse_csv_file
parse_csv_file(content, u) ==
    IF content.layout = "empty" THEN ParseErr("Empty CSV file", 0, u)
    ELSE IF content.layout \notin {"csv", "widecsv"}
    THEN ParseErr("Missing required columns in header", 0, u)
    ELSE CsvRows(content.records, 1, <<>>, u)

\* json_parser._parse_json_transaction: the idempotency key is drawn before the id
parse_json_transaction(data, u) ==
    LET type_str == Lower(data.type)
    IN  IF type_str \notin DOMAIN JSON_TYPE_MAP THEN RowErr("Invalid transaction type", u)
        ELSE IF ~data.amount.numeric THEN RowErr("Invalid amount", u)
        ELSE IF data.amount.cents <= 0 THEN RowErr("Amount must be positive", u)
        ELSE IF ~data.settlement_date.valid THEN RowErr("Invalid date format", u)
        ELSE LET keyed == data.idempotency_key # 0
                 u1 == IF keyed THEN u ELSE u + 1
                 tx == [id |-> u1 + 1, type |-> JSON_TYPE_MAP[type_str],
                        amount |-> data.amount.cents,
                        currency |-> Upper(data.currency),
                        source_account |-> data.source_account,
                        target_account |-> data.target_account,
                        document |-> data.document,
                        settlement_date |-> data.settlement_date.day,
                        description |-> data.description,
                        idempotency_key |-> IF keyed THEN data.idempotency_key ELSE u1,
                        bank_code |-> data.bank_code, raw_line |-> RawLine(data)]
             IN  IF ModelAccepts(tx) THEN RowOk(tx, u1 + 1)
                 ELSE RowErr("Unexpected error", u1 + 1)

\* parse_json_file, lines 200-217: the loop over the items, indexed from 0
RECURSIVE JsonItems(_, _, _, _)
JsonItems(items, i, txs, u) ==
    IF i > Len(items) THEN ParseOk(txs, u)
    ELSE LET r == parse_json_transaction(items[i], u)
         IN  IF r.ok THEN JsonItems(items, i + 1, Append(txs, r.tx), r.uuids)
             ELSE ParseErr(r.reason, i - 1, r.uuids)

\* json_parser.parse_json_file
parse_json_file(content, u) ==
    IF content.layout = "empty" THEN ParseErr("Empty JSON content", -1, u)
    ELSE IF content.layout # "json" THEN ParseErr("Invalid JSON", -1, u)
    ELSE IF content.records = <<>> THEN ParseErr("No transactions in JSON data", -1, u)
    ELSE JsonItems(content.records, 1, <<>>, u)

\* cnab._parse_segment_a and cnab._parse_segment_j: the id is drawn before
\* the idempotency key
parse_segment(line, u) ==
    IF ~line.settlement_date.valid THEN RowErr("Segment parse error", u)
    ELSE IF ~line.amount.numeric THEN RowErr("Segment parse error", u)
    ELSE LET tx == [id |-> u + 1,
                    type |-> IF line.segment = "A" THEN <<"transfer">> ELSE <<"debit">>,
                    amount |-> line.amount.cents,
                    currency |-> <<"B", "R", "L">>,
                    source_account |-> IF line.segment = "A" THEN line.source_account
                                       ELSE <<"boleto">>,
                    target_account |-> IF line.segment = "A"
                                       THEN line.bank_code \o <<"-">> \o line.target_account
                                       ELSE line.target_account,
                    document |-> IF line.document # <<>> THEN line.document
                                 ELSE [i \in 1..11 |-> "0"],
                    settlement_date |-> line.settlement_date.day,
                    description |-> strip(line.description),
                    idempotency_key |-> u + 2,
                    bank_code |-> line.bank_code, raw_line |-> RawLine(line)]
         IN  IF ModelAccepts(tx) THEN RowOk(tx, u + 2)
             ELSE RowErr("Segment parse error", u + 2)

\* cnab.parse_cnab240_detail
parse_cnab240_detail(line, u) ==
    IF line.line_len # 240 THEN RowErr("Line length must be 240", u)
    ELSE IF line.record_type # "3" THEN RowErr("Not a detail record", u)
    ELSE IF line.segment \in {"A", "J"} THEN parse_segment(line, u)
    ELSE RowErr("Unsupported segment type", u)

\* parse_cnab_file, lines 270-301: the loop over the lines, numbered from 1;
\* blank lines and lines that are not detail records are passed over
RECURSIVE CnabLines_strict(_, _, _, _)
CnabLines_strict(lines, i, txs, u) ==
    IF i > Len(lines)
    THEN IF txs = <<>> THEN ParseErr("No valid transactions found in CNAB file", 0, u)
         ELSE ParseOk(txs, u)
    ELSE IF lines[i].line_len = 0 THEN CnabLines_strict(lines, i + 1, txs, u)
    ELSE IF lines[1].line_len = 240 \/ lines[i].line_len = 240
    THEN LET r == parse_cnab240_detail(lines[i], u)
         IN  IF r.ok THEN CnabLines_strict(lines, i + 1, Append(txs, r.tx), r.uuids)
             ELSE ParseErr(r.reason, i, r.uuids)
    ELSE ParseErr("CNAB 400 format not yet supported", i, u)

RECURSIVE CnabLines(_, _, _, _)
CnabLines(lines, i, txs, u) ==
    IF i > Len(lines)
    THEN IF txs = <<>> THEN ParseErr("No valid transactions found in CNAB file", 0, u)
         ELSE ParseOk(txs, u)
    ELSE IF lines[i].line_len = 0 THEN CnabLines(lines, i + 1, txs, u)
    ELSE IF lines[1].line_len = 240 \/ lines[i].line_len = 240
    THEN LET r == parse_cnab240_detail(lines[i], u)
         IN  IF r.ok THEN CnabLines(lines, i + 1, Append(txs, r.tx), r.uuids)
             ELSE IF r.reason = "Not a detail record"
             THEN CnabLines(lines, i + 1, txs, r.uuids)
             ELSE ParseErr(r.reason, i, r.uuids)
    ELSE ParseErr("CNAB 400 format not yet supported", i, u)

\* cnab.parse_cnab_file: a content of another layout is lines that are not
\* 240 characters long
parse_cnab_file(content, u) ==
    IF content.layout = "empty" THEN ParseErr("Empty CNAB file", 0, u)
    ELSE IF content.layout # "cnab" THEN ParseErr("CNAB 400 format not yet supported", 1, u)
    ELSE IF content.records = <<>> THEN ParseErr("Empty CNAB file", 0, u)
    ELSE CnabLines(content.records, 1, <<>>, u)

\* the three parsers by the name of their format
ParseWith(format, content, u) ==
    CASE format = "cnab" -> parse_cnab_file(content, u)
      [] format = "csv" -> parse_csv_file(content, u)
      [] OTHER -> parse_json_file(content, u)

\* what a parser makes of one record of the content, numbered as it reports it
RecordResult(format, content, i, u) ==
    CASE format = "cnab" -> parse_cnab240_detail(content.records[i], u)
      [] format = "csv" -> parse_csv_row(content.records[i], u)
      [] OTHER -> parse_json_transaction(content.records[i], u)
RecordNumber(format, i) ==
    CASE format = "cnab" -> i [] format = "csv" -> i + 1 [] OTHER -> i - 1

\* ------------------------------------------------------ financial guards
IsDigits(text) == \A i \in DOMAIN text : \E d \in DOMAIN Digits : Digits[d] = text[i]
IsAlpha(text) == \A i \in DOMAIN text : text[i] \in {"B", "R", "L", "U", "S", "D", "E", "X"}
DigitValue(ch) == (CHOOSE d \in DOMAIN Digits : Digits[d] = ch) - 1

\* financial.VALID_CURRENCY_CODES, the codes the inputs can hold
VALID_CURRENCY_CODES == {<<"B", "R", "L">>, <<"U", "S", "D">>, <<"E", "U", "R">>}

\* guard_positive_amount: the amount is finite with two decimals by construction
guard_positive_amount(amount) == amount > 0

\* guard_currency_code
guard_currency_code(code) ==
    /\ code # <<>>
    /\ Len(Upper(code)) = 3
    /\ IsAlpha(Upper(code))
    /\ Upper(code) \in VALID_CURRENCY_CODES

\* guard_bank_code
guard_bank_code(code) == code # <<>> /\ IsDigits(code) /\ Len(code) \in {3, 8}

\* sum(d * w for d, w in zip(digits, weights))
RECURSIVE WeightedSum(_, _, _)
WeightedSum(digits, weights, i) ==
    IF i > Len(weights) THEN 0
    ELSE (DigitValue(digits[i]) * weights[i]) + WeightedSum(digits, weights, i + 1)
\* a check digit without the rule for remainders below 2
CheckDigit_plain(total) == 11 - (total % 11)

CheckDigit(total) == IF total % 11 < 2 THEN 0 ELSE 11 - (total % 11)

\* _cpf_check_digits
cpf_check_digits(d) ==
    /\ DigitValue(d[10]) = CheckDigit(WeightedSum(d, <<10, 9, 8, 7, 6, 5, 4, 3, 2>>, 1))
    /\ DigitValue(d[11]) = CheckDigit(WeightedSum(d, <<11, 10, 9, 8, 7, 6, 5, 4, 3, 2>>, 1))

\* _cnpj_check_digits
cnpj_check_digits(d) ==
    /\ DigitValue(d[13]) =
         CheckDigit(WeightedSum(d, <<5, 4, 3, 2, 9, 8, 7, 6, 5, 4, 3, 2>>, 1))
    /\ DigitValue(d[14]) =
         CheckDigit(WeightedSum(d, <<6, 5, 4, 3, 2, 9, 8, 7, 6, 5, 4, 3, 2>>, 1))

\* re.sub(r"[.\-/]", "", text)
RemoveFormatting(text) == SelectSeq(text, LAMBDA ch : ch \notin {".", "-", "/"})

\* str.isdigit()
isdigit(text) == text # <<>> /\ IsDigits(text)

\* guard_cpf_cnpj: whether the document is accepted, and the digits returned
guard_cpf_cnpj(document) ==
    LET digits_only == RemoveFormatting(strip(document))
        accepted ==
            /\ document # <<>>
            /\ isdigit(digits_only)
            /\ Cardinality({digits_only[i] : i \in DOMAIN digits_only}) # 1
            /\ CASE Len(digits_only) = 11 -> cpf_check_digits(digits_only)
                 [] Len(digits_only) = 14 -> cnpj_check_digits(digits_only)
                 [] OTHER -> FALSE
    IN  [ok |-> accepted, value |-> IF accepted THEN digits_only ELSE <<>>]

\* guard_settlement_date
guard_settlement_date(day) == day <= Today /\ Today - day <= max_past_days

\* the documents guard_cpf_cnpj is called on: digit strings that pass and
\* fail each rule, bare, punctuated, padded with blanks, with a blank inside
\* and with a leading slash
DocumentBases ==
    {<<"5", "2", "9", "9", "8", "2", "2", "4", "7", "2", "5">>,
     <<"1", "2", "3", "4", "5", "6", "7", "8", "9", "0", "9">>,
     <<"1", "2", "3", "4", "5", "6", "7", "8", "9", "0", "0">>,
     <<"5", "2", "9", "9", "8", "2", "2", "4", "7", "3", "5">>,
     <<"1", "1", "1", "1", "1", "1", "1", "1", "1", "1", "1">>,
     <<"1", "1", "2", "2", "2", "3", "3", "3", "0", "0", "0", "1", "8", "1">>,
     <<"1", "1", "2", "2", "2", "3", "3", "3", "0", "0", "0", "1", "8", "0">>,
     <<"1", "1", "2", "2", "2", "3", "3", "3", "0", "0", "0", "1", "7", "1">>,
     <<"0", "0", "0", "0", "0", "0", "0", "0", "0", "0", "0", "0", "0", "0">>,
     <<"5", "2", "9", "9", "8", "2", "2", "4", "7", "2">>,
     <<"5", "2", "9", "9", "8", "2", "2", "4", "7", "2", "5", "5">>,
     <<"5", "2", "9", "9", "8", "2", "2", "4", "7", "2", "X">>,
     <<>>}
Punctuated(text) ==
    IF Len(text) < 5 THEN text \o <<".">>
    ELSE SubSeq(text, 1, 3) \o <<".">> \o SubSeq(text, 4, Len(text) - 2)
         \o <<"-">> \o SubSeq(text, Len(text) - 1, Len(text))
DocumentInputs ==
    UNION {{base, Punctuated(base), <<" ">> \o base \o <<" ">>,
            <<"/">> \o base,
            IF Len(base) < 3 THEN <<" ">>
            ELSE SubSeq(base, 1, 3) \o <<" ">> \o SubSeq(base, 4, Len(base))} :
           base \in DocumentBases}

\* guard_cpf_cnpj is called on the document
GuardCpfCnpj ==
    /\ ~gdResult.called
    /\ gdResult' = [called |-> TRUE, ok |-> guard_cpf_cnpj(gdDocument).ok,
                    value |-> guard_cpf_cnpj(gdDocument).value]
    /\ UNCHANGED <<memVars, calls, uuids, rdVars, auVars, pgVars, prVars, ingVars,
                   csvVars, recVars, hashVars, gdDocument, lnVars>>

\* ---------------------------------------------------- fixed-width fields
\* int(text) of a digit string
RECURSIVE ToInt(_)
ToInt(text) ==
    IF text = <<>> THEN 0
    ELSE (10 * ToInt(SubSeq(text, 1, Len(text) - 1))) + DigitValue(text[Len(text)])

\* datetime.date(year, month, day): ValueError for what is no calendar date;
\* the date is held as its day number, date.toordinal()
IsLeap(year) == (year % 4 = 0 /\ year % 100 # 0) \/ year % 400 = 0
DaysInMonth(year, month) ==
    IF month = 2 THEN (IF IsLeap(year) THEN 29 ELSE 28)
    ELSE IF month \in {4, 6, 9, 11} THEN 30 ELSE 31
RECURSIVE DaysBeforeMonth(_, _)
DaysBeforeMonth(year, month) ==
    IF month = 1 THEN 0
    ELSE DaysBeforeMonth(year, month - 1) + DaysInMonth(year, month - 1)
DaysBeforeYear(year) ==
    LET p == year - 1 IN (365 * p) + (p \div 4) - (p \div 100) + (p \div 400)
FieldOk(value) == [ok |-> TRUE, value |-> value]
FieldErr == [ok |-> FALSE, value |-> 0]
date(year, month, day) ==
    IF /\ year \in 1..9999
       /\ month \in 1..12
       /\ day \in 1..DaysInMonth(year, month)
    THEN FieldOk(DaysBeforeYear(year) + DaysBeforeMonth(year, month) + day)
    ELSE FieldErr

\* cnab._parse_cnab_date
parse_cnab_date(date_str) ==
    IF Len(date_str) # 8 \/ ~isdigit(date_str) THEN FieldErr
    ELSE date(ToInt(SubSeq(date_str, 5, 8)), ToInt(SubSeq(date_str, 3, 4)),
              ToInt(SubSeq(date_str, 1, 2)))

\* a reading of the amount field as whole units
parse_cnab_amount_units(amount_str) ==
    IF ~isdigit(amount_str) THEN FieldErr ELSE FieldOk(100 * ToInt(amount_str))

\* cnab._parse_cnab_amount: Decimal(cents) / Decimal(100), held in cents
parse_cnab_amount(amount_str) ==
    IF ~isdigit(amount_str) THEN FieldErr ELSE FieldOk(ToInt(amount_str))

\* cnab._parse_segment_a on a 240-character line, held as the fields it
\* slices: the date is read before the amount, and what fails first ends the
\* call; both identifiers are drawn before the model validates the fields
parse_segment_a(line, u) ==
    LET settlement_date == parse_cnab_date(line.date_field)
        amount == parse_cnab_amount(strip(line.amount_field))
        tx == [id |-> u + 1, type |-> <<"transfer">>, amount |-> amount.value,
               currency |-> <<"B", "R", "L">>,
               source_account |-> strip(line.source_account),
               target_account |-> line.target_bank \o <<"-">> \o strip(line.target_account),
               document |-> IF strip(line.document) # <<>> THEN strip(line.document)
                            ELSE [i \in 1..11 |-> "0"],
               settlement_date |-> settlement_date.value,
               description |-> strip(line.description),
               idempotency_key |-> u + 2,
               bank_code |-> line.bank_code, raw_line |-> <<"line">>]
    IN  IF ~settlement_date.ok THEN RowErr("Segment A parse error", u)
        ELSE IF ~amount.ok THEN RowErr("Segment A parse error", u)
        ELSE IF ModelAccepts(tx) THEN RowOk(tx, u + 2)
        ELSE RowErr("Segment A parse error", u + 2)

\* the segment-A lines: every date field with every amount field
DateFields ==
    {<<"0", "1", "0", "1", "2", "0", "2", "5">>,
     <<"0", "2", "0", "1", "2", "0", "2", "5">>,
     <<"3", "1", "1", "2", "2", "0", "2", "4">>,
     <<"2", "9", "0", "2", "2", "0", "2", "4">>,
     <<"2", "9", "0", "2", "2", "0", "2", "5">>,
     <<"1", "2", "3", "1", "2", "0", "2", "5">>,
     <<"0", "0", "0", "0", "0", "0", "0", "0">>,
     <<"0", "1", "0", "1", "2", "0", "2", " ">>,
     <<" ", " ", " ", " ", " ", " ", " ", " ">>}
AmountFields ==
    {<<"0", "0", "0", "0", "0", "0", "0", "0", "0", "0", "1", "0", "0", "0", "0">>,
     <<"0", "0", "0", "0", "0", "0", "0", "0", "0", "0", "1", "0", "0", "5", "0">>,
     <<"0", "0", "0", "0", "0", "0", "0", "0", "0", "0", "0", "0", "0", "0", "1">>,
     <<"0", "0", "0", "0", "0", "0", "0", "0", "0", "0", "0", "0", "0", "0", "0">>,
     <<" ", " ", " ", " ", " ", " ", " ", " ", " ", " ", "1", "0", "0", "0", "0">>,
     <<"0", "0", "0", "0", "0", "0", "0", "0", "0", "0", "1", "0", "0", ".", "5">>,
     <<"-", "0", "0", "0", "0", "0", "0", "0", "0", "0", "1", "0", "0", "0", "0">>,
     <<" ", " ", " ", " ", " ", " ", " ", " ", " ", " ", " ", " ", " ", " ", " ">>}
SegmentALine(date_field, amount_field) ==
    [bank_code |-> <<"0", "0", "1">>, target_bank |-> <<"2", "3", "7">>,
     target_account |-> <<"4", "5", "6", " ">>, source_account |-> <<"1", "2", "3", " ">>,
     date_field |-> date_field, amount_field |-> amount_field,
     document |-> <<"5", "2", "9", "9", "8", "2", "2", "4", "7", "2", "5">>,
     description |-> <<" ">>]
LineInputs == {SegmentALine(d, a) : d \in DateFields, a \in AmountFields}
NoLineOut == [called |-> FALSE, settlement_date |-> FieldErr, amount |-> FieldErr,
              result |-> RowErr("none", 0)]

\* _parse_segment_a is called on the line: what it read of the two fields
\* (the amount only once the date is read) and what it returned
ParseSegmentA ==
    /\ ~lnOut.called
    /\ lnOut' = [called |-> TRUE,
                 settlement_date |-> parse_cnab_date(lnLine.date_field),
                 amount |-> IF parse_cnab_date(lnLine.date_field).ok
                            THEN parse_cnab_amount(strip(lnLine.amount_field))
                            ELSE FieldErr,
                 result |-> parse_segment_a(lnLine, uuids)]
    /\ uuids' = lnOut'.result.uuids
    /\ UNCHANGED <<memVars, calls, rdVars, auVars, pgVars, prVars, ingVars,
                   csvVars, recVars, hashVars, gdVars, lnLine>>

\* ------------------------------------------------------------- pipeline
\* pipeline.ALLOWED_EXTENSIONS
ALLOWED_EXTENSIONS ==
    {<<"c", "n", "a", "b">>, <<"r", "e", "m">>, <<"r", "e", "t">>,
     <<"c", "s", "v">>, <<"j", "s", "o", "n">>}

\* the suffixes of the file names, without the dot
Suffixes == ALLOWED_EXTENSIONS \cup {<<"C", "S", "V">>, <<"t", "x", "t">>, <<"e", "x", "e">>, <<>>}

\* a check against the default deny-list alone
guard_file_extension_denied_only(suffix) == Lower(suffix) # <<"e", "x", "e">>

\* taipanstack guard_file_extension with the allow-list: the default
\* deny-list is looked up first
guard_file_extension(suffix) ==
    /\ Lower(suffix) # <<"e", "x", "e">>
    /\ Lower(suffix) \in ALLOWED_EXTENSIONS

\* pipeline._detect_format; "undetected" stands for the ValueError
detect_format(suffix, content) ==
    LET ext == Lower(suffix)
    IN  IF ext \in {<<"c", "n", "a", "b">>, <<"r", "e", "m">>, <<"r", "e", "t">>}
        THEN "cnab"
        ELSE IF ext = <<"c", "s", "v">> THEN "csv"
        ELSE IF ext = <<"j", "s", "o", "n">> THEN "json"
        ELSE IF content.lead \in {"{", "["} THEN "json"
        ELSE IF content.first_line_len >= 240 THEN "cnab"
        ELSE IF content.first_line_sep THEN "csv"
        ELSE "undetected"

\* pipeline._validate_transaction: the guard that fails first, "ok" if none
validate_transaction(tx) ==
    IF ~guard_positive_amount(tx.amount) THEN "amount"
    ELSE IF ~guard_currency_code(tx.currency) THEN "currency"
    ELSE IF ~guard_bank_code(tx.bank_code) THEN "bank_code"
    ELSE "ok"

\* result.collect_results over the validated batch: the first Err, with the
\* place in the batch of the transaction it is about
RECURSIVE collect_results(_, _, _)
collect_results(txs, i, u) ==
    IF i > Len(txs) THEN ParseOk(txs, u)
    ELSE IF validate_transaction(txs[i]) = "ok" THEN collect_results(txs, i + 1, u)
    ELSE ParseErr(validate_transaction(txs[i]), i, u)

\* ingest_file, lines 137-150: the parser the file is dispatched to
dispatch(file) ==
    IF ~guard_file_extension(file.suffix) THEN "rejected"
    ELSE detect_format(file.suffix, file.content)

\* pipeline.ingest_file
ingest_file(file, u) ==
    LET file_format == dispatch(file)
    IN  IF file_format = "rejected" THEN ParseErr("extension", -1, u)
        ELSE IF file_format = "undetected" THEN ParseErr("format", -1, u)
        ELSE LET parse_result == ParseWith(file_format, file.content, u)
             IN  IF ~parse_result.ok THEN parse_result
                 ELSE collect_results(parse_result.txs, 1, parse_result.uuids)

NoFile == [suffix |-> <<>>, content |-> Content("empty", <<>>)]

\* the files handed to the ingestion job: every suffix on the short
\* contents, and the longer contents under the suffix of their layout
NativeSuffix(layout) ==
    CASE layout = "json" -> <<"j", "s", "o", "n">>
      [] layout = "cnab" -> <<"r", "e", "m">>
      [] OTHER -> <<"c", "s", "v">>
Files ==
    {[suffix |-> x, content |-> c] : x \in Suffixes,
                                     c \in {d \in Contents : Len(d.records) <= 1}}
    \cup {[suffix |-> NativeSuffix(c.layout), content |-> c] : c \in Contents}

\* the session of the worker
Worker == CHOOSE s \in Sessions : \A q \in Sessions : s <= q

\* _detect_format is called on its own
DetectAlone(file) ==
    /\ wkPc = "idle"
    /\ dtFormat = "none"
    /\ dtFile' = file
    /\ dtFormat' = detect_format(file.suffix, file.content)
    /\ UNCHANGED <<memVars, calls, uuids, rdVars, auVars, pgVars, prVars, csvVars, recVars, fnVars, ingFile,
                   ingOutcome, wkPc, wkIndex, wkSaveCalls, wkBefore, ingFormat>>

\* process_ingestion_job, lines 42-53: the file is read and ingest_file run
WorkerIngest(file) ==
    /\ wkPc = "idle"
    /\ dtFormat = "none"
    /\ ingFile' = file
    /\ ingFormat' = dispatch(file)
    /\ ingOutcome' = ingest_file(file, uuids)
    /\ uuids' = ingOutcome'.uuids
    /\ wkBefore' = <<dbHead, dbTxs, dbEntries>>
    /\ wkIndex' = 1
    /\ wkPc' = IF ingOutcome'.ok THEN "loop" ELSE "done"
    /\ UNCHANGED <<memVars, calls, rdVars, auVars, pgVars, prVars, csvVars, recVars, fnVars, wkSaveCalls,
                   dtFile, dtFormat>>

\* process_ingestion_job, lines 62-73: save_transaction on the next
\* transaction of the validated batch, once the previous call has returned
WorkerSave ==
    /\ wkPc = "loop"
    /\ spc[Worker] = "idle"
    /\ wkIndex <= Len(ingOutcome.txs)
    /\ calls' = calls + 1
    /\ wkSaveCalls' = wkSaveCalls + 1
    /\ wkIndex' = wkIndex + 1
    /\ spc' = [spc EXCEPT ![Worker] = "select"]
    /\ sframe' = [sframe EXCEPT ![Worker] = [NoSFrame EXCEPT !.tx = ingOutcome.txs[wkIndex]]]
    /\ sresult' = [sresult EXCEPT ![Worker] = NoResult]
    /\ UNCHANGED <<memVars, uuids, rdVars, auVars, dbVars, headLock, headInsertBy,
                   prVars, csvVars, recVars, fnVars, ingFile, ingOutcome, wkPc, wkBefore, ingFormat, dtFile,
                   dtFormat>>

\* process_ingestion_job, lines 75-83: the loop is over
WorkerFinish ==
    /\ wkPc = "loop"
    /\ spc[Worker] = "idle"
    /\ wkIndex > Len(ingOutcome.txs)
    /\ wkPc' = "done"
    /\ UNCHANGED <<memVars, calls, uuids, rdVars, auVars, pgVars, prVars, csvVars, recVars, fnVars, ingFile,
                   ingOutcome, wkIndex, wkSaveCalls, wkBefore, ingFormat, dtFile,
                   dtFormat>>

\* a parser is called on a content
ParseFile(format) ==
    /\ prFormat = "none"
    /\ prFormat' = format
    /\ prResult' = ParseWith(format, prContent, uuids)
    /\ uuids' = prResult'.uuids
    /\ UNCHANGED <<memVars, calls, rdVars, auVars, pgVars, ingVars, recVars, fnVars, csvVars, prContent>>

\* ingestions of the same delimited file
MaxIngests == 2

\* the same file is parsed by parse_csv_file once more
CsvIngest ==
    /\ AllIdle
    /\ prFormat \in {"none", "csv"}
    /\ csvIngests < MaxIngests
    /\ csvIngests > 0 => csvIndex > Len(prResult.txs)
    /\ csvIngests' = csvIngests + 1
    /\ prFormat' = "csv"
    /\ prPrev' = prResult
    /\ prResult' = parse_csv_file(prContent, uuids)
    /\ uuids' = prResult'.uuids
    /\ csvIndex' = 1
    /\ csvSize' = size(entries)
    /\ UNCHANGED <<memVars, calls, rdVars, auVars, pgVars, ingVars, recVars, fnVars, prContent>>

\* the next transaction of the parsed batch is handed to LedgerStore.append
CsvAppend ==
    /\ AllIdle
    /\ prFormat = "csv"
    /\ prResult.ok
    /\ csvIndex <= Len(prResult.txs)
    /\ csvIndex' = csvIndex + 1
    /\ calls' = calls + 1
    /\ pc' = [pc EXCEPT ![Caller] = "check"]
    /\ frame' = [frame EXCEPT ![Caller] =
                    [NoFrame EXCEPT !.tx_hash = content_hash(prResult.txs[csvIndex])]]
    /\ result' = [result EXCEPT ![Caller] = NoResult]
    /\ UNCHANGED <<entries, transaction_hashes, uuids, rdVars, auVars, pgVars, prVars,
                   ingVars, recVars, fnVars, prPrev, csvIngests, csvSize>>

\* -------------------------------------------------------- reconciliation
\* lists handed to reconcile hold at most this many transactions
MaxRecLen == 2

\* Discrepancy(field_name, source_value, target_value, difference); the
\* difference is <<>> for None
Discrepancy(field_name, source_value, target_value, difference) ==
    [field_name |-> field_name, source_value |-> source_value,
     target_value |-> target_value, difference |-> difference]

\* ReconciliationResult(status, source_hash, target_hash, discrepancies, message)
ReconciliationResult(status, source_hash, target_hash, discrepancies, message) ==
    [status |-> status, source_hash |-> source_hash, target_hash |-> target_hash,
     discrepancies |-> discrepancies, message |-> message]

\* the field checks of the matchers, each the list of its discrepancies
CurrencyCheck(source, target) ==
    IF source.currency # target.currency
    THEN <<Discrepancy("currency", source.currency, target.currency, <<>>)>>
    ELSE <<>>
AmountCheck_absolute(source, target) ==
    IF source.amount # target.amount
    THEN <<Discrepancy("amount", StrDecimal(source.amount), StrDecimal(target.amount),
                       <<IF source.amount > target.amount
                         THEN source.amount - target.amount
                         ELSE target.amount - source.amount>>)>>
    ELSE <<>>
AmountCheck(source, target) ==
    IF source.amount # target.amount
    THEN <<Discrepancy("amount", StrDecimal(source.amount), StrDecimal(target.amount),
                       <<source.amount - target.amount>>)>>
    ELSE <<>>
DateCheck(source, target) ==
    IF source.settlement_date # target.settlement_date
    THEN <<Discrepancy("settlement_date", dateiso(source.settlement_date),
                       dateiso(target.settlement_date), <<>>)>>
    ELSE <<>>
DocumentCheck(source, target) ==
    IF source.document # <<>> /\ target.document # <<>>
       /\ source.document # target.document
    THEN <<Discrepancy("document", source.document, target.document, <<>>)>>
    ELSE <<>>

\* ExactMatcher.compare
ExactMatcher_compare(source, target) ==
    LET discrepancies == CurrencyCheck(source, target) \o AmountCheck(source, target)
                         \o DateCheck(source, target) \o DocumentCheck(source, target)
    IN  IF discrepancies = <<>>
        THEN ReconciliationResult("matched", content_hash(source), content_hash(target),
                                  <<>>, <<"Exact match confirmed">>)
        ELSE ReconciliationResult("discrepancy", content_hash(source),
                                  content_hash(target), discrepancies,
                                  <<"Found">> \o StrNat(Len(discrepancies))
                                  \o <<"discrepancies during exact match">>)

\* abs(source.settlement_date - target.settlement_date), in days
DateDiff(source, target) ==
    IF source.settlement_date >= target.settlement_date
    THEN source.settlement_date - target.settlement_date
    ELSE target.settlement_date - source.settlement_date

\* a tolerance check that rejects a difference of exactly the tolerance
ToleranceCheck_strict(source, target, tolerance_days) ==
    IF DateDiff(source, target) >= tolerance_days /\ DateDiff(source, target) > 0
    THEN <<Discrepancy("settlement_date", dateiso(source.settlement_date),
                       dateiso(target.settlement_date), <<>>)>>
    ELSE <<>>

\* DateToleranceMatcher.compare, lines 176-184
ToleranceCheck(source, target, tolerance_days) ==
    IF DateDiff(source, target) > tolerance_days
    THEN <<Discrepancy("settlement_date", dateiso(source.settlement_date),
                       dateiso(target.settlement_date), <<>>)>>
    ELSE <<>>

\* DateToleranceMatcher(tolerance_days).compare
DateToleranceMatcher_compare(source, target, tolerance_days) ==
    LET discrepancies == CurrencyCheck(source, target) \o AmountCheck(source, target)
                         \o ToleranceCheck(source, target, tolerance_days)
    IN  IF discrepancies = <<>>
        THEN ReconciliationResult("matched", content_hash(source), content_hash(target),
                                  <<>>, <<"Matched with date tolerance (diff:">>
                                        \o StrNat(DateDiff(source, target)) \o <<")">>)
        ELSE ReconciliationResult("discrepancy", content_hash(source),
                                  content_hash(target), discrepancies,
                                  <<"Discrepancies found in tolerance match">>)

\* the matchers an engine is configured with
ExactMatcher == [kind |-> "exact", tolerance_days |-> 0]
DateToleranceMatcher(tolerance_days) ==
    [kind |-> "tolerance", tolerance_days |-> tolerance_days]
Matchers == {ExactMatcher} \cup {DateToleranceMatcher(n) : n \in {0, 1, 2}}

\* self.matcher.compare(source, target)
compare(matcher, source, target) ==
    IF matcher.kind = "exact" THEN ExactMatcher_compare(source, target)
    ELSE DateToleranceMatcher_compare(source, target, matcher.tolerance_days)

\* reconcile, lines 77-79: target_map[str(tx.id)], the last target of that id
HasTarget(target, id) == \E i \in DOMAIN target : StrUuid(target[i].id) = StrUuid(id)
target_map(target, id) ==
    target[CHOOSE i \in DOMAIN target :
              /\ StrUuid(target[i].id) = StrUuid(id)
              /\ \A j \in DOMAIN target : j > i => StrUuid(target[j].id) # StrUuid(id)]

\* the keys of target_map in insertion order
RECURSIVE TargetKeys(_, _)
TargetKeys(target, i) ==
    IF i > Len(target) THEN <<>>
    ELSE IF \E j \in 1..(i - 1) : target[j].id = target[i].id
    THEN TargetKeys(target, i + 1)
    ELSE <<target[i].id>> \o TargetKeys(target, i + 1)

\* a loop over the sources that stops at the first one without a target
RECURSIVE ProcessSources_stopping(_, _, _, _)
ProcessSources_stopping(matcher, source, target, i) ==
    IF i > Len(source) THEN <<>>
    ELSE IF HasTarget(target, source[i].id)
    THEN <<compare(matcher, source[i], target_map(target, source[i].id))>>
         \o ProcessSources_stopping(matcher, source, target, i + 1)
    ELSE <<ReconciliationResult("unmatched_source", content_hash(source[i]), <<>>, <<>>,
                                <<"Transaction not found in target set">>)>>

\* reconcile, lines 84-99: the loop over the sources
RECURSIVE ProcessSources(_, _, _, _)
ProcessSources(matcher, source, target, i) ==
    IF i > Len(source) THEN <<>>
    ELSE (IF HasTarget(target, source[i].id)
          THEN <<compare(matcher, source[i], target_map(target, source[i].id))>>
          ELSE <<ReconciliationResult("unmatched_source", content_hash(source[i]),
                                      <<>>, <<>>,
                                      <<"Transaction not found in target set">>)>>)
         \o ProcessSources(matcher, source, target, i + 1)

\* reconcile, line 92: the ids added to matched_target_ids
matched_target_ids(source, target) ==
    {source[i].id : i \in {k \in DOMAIN source : HasTarget(target, source[k].id)}}

\* a loop over the targets that reports every one of them
RECURSIVE UnmatchedTargets_all(_, _, _, _)
UnmatchedTargets_all(keys, source, target, i) ==
    IF i > Len(keys) THEN <<>>
    ELSE <<ReconciliationResult("unmatched_target", <<>>,
                                content_hash(target_map(target, keys[i])), <<>>,
                                <<"Transaction in target but not in source">>)>>
         \o UnmatchedTargets_all(keys, source, target, i + 1)

\* reconcile, lines 102-108: the loop over target_map
RECURSIVE UnmatchedTargets(_, _, _, _)
UnmatchedTargets(keys, source, target, i) ==
    IF i > Len(keys) THEN <<>>
    ELSE (IF keys[i] \notin matched_target_ids(source, target)
          THEN <<ReconciliationResult("unmatched_target", <<>>,
                                      content_hash(target_map(target, keys[i])), <<>>,
                                      <<"Transaction in target but not in source">>)>>
          ELSE <<>>)
         \o UnmatchedTargets(keys, source, target, i + 1)

\* report.generate_report
CountStatus(results, status) ==
    Cardinality({i \in DOMAIN results : results[i].status = status})
generate_report(results) ==
    [total_records |-> Len(results),
     matched |-> CountStatus(results, "matched"),
     unmatched_source |-> CountStatus(results, "unmatched_source"),
     unmatched_target |-> CountStatus(results, "unmatched_target"),
     discrepancies |-> CountStatus(results, "discrepancy"),
     results |-> results]

\* ReconciliationEngine(matcher).reconcile
reconcile(matcher, source, target) ==
    generate_report(ProcessSources(matcher, source, target, 1)
                    \o UnmatchedTargets(TargetKeys(target, 1), source, target, 1))

\* the transactions the matchers and the engine are given
RecTx(id, amount, currency, day, document) ==
    [Transaction(id, id, <<>>) EXCEPT !.amount = amount, !.currency = currency,
                                      !.settlement_date = day, !.document = document]
CompareInputs ==
    {RecTx(1, a, c, d, doc) :
        a \in {10000, 9000}, c \in {<<"B", "R", "L">>, <<"U", "S", "D">>},
        d \in {10, 11, 13}, doc \in {<<>>, <<"D", "1">>, <<"D", "2">>}}
ReconcileInputs ==
    {RecTx(1, a, <<"B", "R", "L">>, 10, <<>>) : a \in {10000, 9000}}
    \cup {RecTx(i, 10000, <<"B", "R", "L">>, 10, <<>>) : i \in {2, 3}}

NoCompare == [matcher |-> ExactMatcher, source |-> Transaction(0, 0, <<>>),
              target |-> Transaction(0, 0, <<>>), called |-> FALSE]
NoReconcile == [matcher |-> ExactMatcher, source |-> <<>>, target |-> <<>>,
                called |-> FALSE]

\* a matcher compares a pair
Compare(matcher, source, target) ==
    /\ ~cmpArgs.called
    /\ ~recArgs.called
    /\ cmpArgs' = [matcher |-> matcher, source |-> source, target |-> target,
                   called |-> TRUE]
    /\ cmpResult' = compare(matcher, source, target)
    /\ UNCHANGED <<memVars, calls, uuids, rdVars, auVars, pgVars, prVars, ingVars,
                   csvVars, fnVars, recArgs, recReport>>

\* an engine reconciles two lists
Reconcile(matcher, source, target) ==
    /\ ~cmpArgs.called
    /\ ~recArgs.called
    /\ recArgs' = [matcher |-> matcher, source |-> source, target |-> target,
                   called |-> TRUE]
    /\ recReport' = reconcile(matcher, source, target)
    /\ UNCHANGED <<memVars, calls, uuids, rdVars, auVars, pgVars, prVars, ingVars,
                   csvVars, fnVars, cmpArgs, cmpResult>>

\* ------------------------------------------------------------ content hash
MaxHashCalls == 2

\* the transactions content_hash is called on: they differ in hashed fields
\* (id, amount, document) and in the two fields kept out of the digest
HashInputs ==
    {[RecTx(id, a, <<"B", "R", "L">>, 1, doc)
         EXCEPT !.description = desc, !.raw_line = raw] :
        id \in TxIds, a \in {5000, 10000}, doc \in {<<"D", "O", "C">>, <<>>},
        desc \in Descriptions, raw \in {<<>>, <<"r", "a", "w">>}}

\* tx.content_hash() is called on one of the two transactions
ContentHash(k) ==
    /\ Len(chOut) < MaxHashCalls
    /\ chOut' = Append(chOut, [of |-> k, value |-> content_hash(chTx[k])])
    /\ UNCHANGED <<memVars, calls, uuids, rdVars, auVars, pgVars, prVars, ingVars,
                   csvVars, recVars, chTx, gdVars, lnVars>>

\* --------------------------------------------------------- specifications
StoreIdle ==
    /\ entries = <<>>
    /\ transaction_hashes = {}
    /\ pc = [t \in Threads |-> "idle"]
    /\ frame = [t \in Threads |-> NoFrame]
    /\ result = [t \in Threads |-> NoResult]
    /\ calls = 0
    /\ uuids = 0
    /\ rdPc = "idle"
    /\ rdEntries = <<>>
    /\ rdTx = Transaction(0, 0, <<>>)
    /\ rdContains = FALSE
    /\ dbHead = NoHead
    /\ dbTxs = {}
    /\ dbEntries = {}
    /\ headLock = 0
    /\ headInsertBy = 0
    /\ spc = [s \in Sessions |-> "idle"]
    /\ sframe = [s \in Sessions |-> NoSFrame]
    /\ sresult = [s \in Sessions |-> NoResult]

\* no audit running
AuditorIdle ==
    /\ auPc = "idle"
    /\ auInput = <<>>
    /\ auTamper = NoTamper
    /\ auResult = IntegrityOk

LedgerInit == StoreIdle /\ AuditorIdle

\* no parser called
ParsersIdle ==
    /\ prContent = Content("empty", <<>>)
    /\ prFormat = "none"
    /\ prResult = NoParse

\* no ingestion job started
WorkerIdle ==
    /\ ingFile = NoFile
    /\ ingOutcome = NoParse
    /\ wkPc = "idle"
    /\ wkIndex = 0
    /\ wkSaveCalls = 0
    /\ wkBefore = <<dbHead, dbTxs, dbEntries>>
    /\ ingFormat = "none"
    /\ dtFile = NoFile
    /\ dtFormat = "none"

\* no delimited file ingested
CsvIdle ==
    /\ prPrev = NoParse
    /\ csvIngests = 0
    /\ csvIndex = 0
    /\ csvSize = 0

\* no matcher and no engine called
ReconcileIdle ==
    /\ cmpArgs = NoCompare
    /\ cmpResult = ReconciliationResult("none", <<>>, <<>>, <<>>, <<>>)
    /\ recArgs = NoReconcile
    /\ recReport = generate_report(<<>>)

\* content_hash not called
HashIdle ==
    /\ chTx = <<Transaction(0, 0, <<>>), Transaction(0, 0, <<>>)>>
    /\ chOut = <<>>

\* _parse_segment_a not called
LineIdle ==
    /\ lnLine = SegmentALine(<<>>, <<>>)
    /\ lnOut = NoLineOut

\* guard_cpf_cnpj not called
GuardIdle ==
    /\ gdDocument = <<>>
    /\ gdResult = [called |-> FALSE, ok |-> FALSE, value |-> <<>>]

Init ==
    /\ LedgerInit /\ ParsersIdle /\ WorkerIdle /\ CsvIdle /\ ReconcileIdle
    /\ HashIdle /\ GuardIdle /\ LineIdle

\* append calls made one at a time
CallAlone(tx) == AllIdle /\ Call(Caller, tx, MaxCalls)

Next ==
    \/ \E tx \in StoreInputs : CallAlone(tx)
    \/ CheckDuplicate(Caller)
    \/ ReadLastHash(Caller)
    \/ ReadSizeAndCreate(Caller)
    \/ InsertEntry(Caller)
    \/ AddHashAndReturn(Caller)
    \/ AuditFetch
    \/ \E i \in 1..MaxCalls, f \in Fields :
          \E v \in FieldValues(auInput, f) : AuditTamper(i, f, v)
    \/ AuditVerify
    \/ AuditReturn

Spec == Init /\ [][Next]_vars

\* append calls and reads interleaved by the thread scheduler
NextThreads ==
    \/ \E t \in Threads, tx \in StoreInputs : Call(t, tx, MaxThreadCalls)
    \/ \E t \in Threads : CheckDuplicate(t)
    \/ \E t \in Threads : ReadLastHash(t)
    \/ \E t \in Threads : ReadSizeAndCreate(t)
    \/ \E t \in Threads : InsertEntry(t)
    \/ \E t \in Threads : AddHashAndReturn(t)
    \/ ReadEntries
    \/ \E tx \in StoreInputs : ReadContains(tx)
    \/ ReaderReturn

SpecThreads == Init /\ [][NextThreads]_vars

\* save_transaction calls of concurrent sessions on one database
NextPg ==
    \/ \E s \in Sessions, tx \in PgInputs : PgCall(s, tx)
    \/ \E s \in Sessions : PgSelectHeadForUpdate(s)
    \/ \E s \in Sessions : PgCreateHead(s)
    \/ \E s \in Sessions : PgBuild(s)
    \/ \E s \in Sessions : PgCommit(s)
    \/ \E s \in Sessions : PgPersistenceFailure(s)

SpecPg == Init /\ [][NextPg]_vars

\* each parser applied to each content
InitParsers ==
    /\ LedgerInit
    /\ prContent \in Contents
    /\ prFormat = "none"
    /\ prResult = NoParse
    /\ WorkerIdle
    /\ CsvIdle
    /\ ReconcileIdle
    /\ HashIdle
    /\ GuardIdle
    /\ LineIdle

NextParsers == \E format \in {"cnab", "csv", "json"} : ParseFile(format)

SpecParsers == InitParsers /\ [][NextParsers]_vars

\* one ingestion job of the worker, or one call of _detect_format
NextIngest ==
    \/ \E file \in Files : WorkerIngest(file)
    \/ WorkerSave
    \/ WorkerFinish
    \/ PgSelectHeadForUpdate(Worker)
    \/ PgCreateHead(Worker)
    \/ PgBuild(Worker)
    \/ PgCommit(Worker)
    \/ PgPersistenceFailure(Worker)
    \/ \E file \in Files : DetectAlone(file)

SpecIngest == Init /\ [][NextIngest]_vars

\* a delimited file ingested more than once into the in-memory ledger
InitCsv ==
    /\ LedgerInit
    /\ prContent \in {c \in Contents : c.layout = "csv"}
    /\ prFormat = "none"
    /\ prResult = NoParse
    /\ WorkerIdle
    /\ CsvIdle
    /\ ReconcileIdle
    /\ HashIdle
    /\ GuardIdle
    /\ LineIdle

NextCsv ==
    \/ CsvIngest
    \/ CsvAppend
    \/ CheckDuplicate(Caller)
    \/ ReadLastHash(Caller)
    \/ ReadSizeAndCreate(Caller)
    \/ InsertEntry(Caller)
    \/ AddHashAndReturn(Caller)

SpecCsv == InitCsv /\ [][NextCsv]_vars

\* one call of a matcher or of an engine
NextReconcile ==
    \/ \E m \in Matchers, source \in CompareInputs, target \in CompareInputs :
          Compare(m, source, target)
    \/ \E m \in {ExactMatcher, DateToleranceMatcher(1)} :
          \E source \in SeqsUpTo(ReconcileInputs, MaxRecLen),
             target \in SeqsUpTo(ReconcileInputs, MaxRecLen) :
             Reconcile(m, source, target)

SpecReconcile == Init /\ [][NextReconcile]_vars

\* content_hash called on two transactions, each possibly more than once
InitHash ==
    /\ LedgerInit /\ ParsersIdle /\ WorkerIdle /\ CsvIdle /\ ReconcileIdle
    /\ GuardIdle /\ LineIdle
    /\ chTx \in {<<a, b>> : a \in HashInputs, b \in HashInputs}
    /\ chOut = <<>>

NextHash == \E k \in {1, 2} : ContentHash(k)

SpecHash == InitHash /\ [][NextHash]_vars

\* verify_chain called on a sequence of entries, sound or not
InitAudit ==
    /\ StoreIdle /\ ParsersIdle /\ WorkerIdle /\ CsvIdle /\ ReconcileIdle
    /\ HashIdle /\ GuardIdle /\ LineIdle
    /\ auPc = "fetched"
    /\ auInput \in AuditInputs
    /\ auTamper = NoTamper
    /\ auResult = IntegrityOk

NextAudit == AuditVerify

SpecAudit == InitAudit /\ [][NextAudit]_vars

\* guard_cpf_cnpj called on one document
InitGuard ==
    /\ LedgerInit /\ ParsersIdle /\ WorkerIdle /\ CsvIdle /\ ReconcileIdle
    /\ HashIdle /\ LineIdle
    /\ gdDocument \in DocumentInputs
    /\ gdResult = [called |-> FALSE, ok |-> FALSE, value |-> <<>>]

NextGuard == GuardCpfCnpj

SpecGuard == InitGuard /\ [][NextGuard]_vars

\* _parse_segment_a called on one line
InitLine ==
    /\ LedgerInit /\ ParsersIdle /\ WorkerIdle /\ CsvIdle /\ ReconcileIdle
    /\ HashIdle /\ GuardIdle
    /\ lnLine \in LineInputs
    /\ lnOut = NoLineOut

NextLine == ParseSegmentA

SpecLine == InitLine /\ [][NextLine]_vars

\* ------------------------------------------------------------ properties
RecordedHashes == {entries[i].transaction_hash : i \in 1..Len(entries)}
Zeros64 == [k \in 1..64 |-> "0"]

\* C1: after any sequence of append calls made one at a time on an initially
\* empty store, entry i carries sequence number i, links to the hash of entry
\* i-1, and entry 0 links to the genesis hash of 64 zero characters.
C1_ChainWellFormed ==
    \A i \in 1..Len(entries) :
        /\ entries[i].sequence_number = i - 1
        /\ entries[i].previous_hash =
               (IF i > 1 THEN entries[i - 1].entry_hash ELSE Zeros64)

C1_Witness ==
    /\ AllIdle
    /\ Len(entries) >= 2
    /\ calls > Len(entries)

\* C2: an append whose content hash is already recorded returns the duplicate
\* error and leaves entries, known hashes, size and last_hash as they were; no
\* sequence number is consumed, so a successful append returns the entry whose
\* sequence number is the size before it.
C2_DuplicateRejected ==
    [][ /\ (pc[Caller] = "check" /\ frame[Caller].tx_hash \in RecordedHashes)
           => /\ pc'[Caller] = "idle"
              /\ result'[Caller] = Err("Duplicate transaction detected")
              /\ entries' = entries
              /\ transaction_hashes' = transaction_hashes
              /\ size(entries') = size(entries)
              /\ last_hash(entries') = last_hash(entries)
        /\ (pc[Caller] # "idle" /\ pc'[Caller] = "idle" /\ result'[Caller].ok)
           => /\ result'[Caller].entry.sequence_number = size(entries') - 1
              /\ result'[Caller].entry = entries'[Len(entries')]
      ]_vars

C2_Witness ==
    /\ AllIdle
    /\ result[Caller].ok
    /\ result[Caller].entry.sequence_number = 1
    /\ calls = result[Caller].entry.sequence_number + 2

\* C3: when callers run append concurrently with distinct transactions, no
\* two entries get the same sequence number or the same previous hash, and
\* every entry carries its position as sequence number.
C3_Serialized ==
    \A i, j \in 1..Len(entries) :
        (i < j /\ entries[i].transaction_hash # entries[j].transaction_hash)
          => /\ entries[i].sequence_number # entries[j].sequence_number
             /\ entries[i].previous_hash # entries[j].previous_hash
             /\ entries[j].sequence_number = j - 1

\* a session is between its read of the existing head row and its commit or
\* rollback
InSection(s) == spc[s] \in {"build", "commit"} /\ sframe[s].sawRow

\* C4: with the head row in place, a second writer cannot read the head until
\* the first has committed or rolled back, the head a writer works from is the
\* committed one, and the committed entries carry the sequence numbers 0..N-1,
\* each linked to the entry hash of its predecessor.
C4_HeadLockSerializes ==
    /\ \A s, u \in Sessions : s # u => ~(InSection(s) /\ InSection(u))
    /\ \A s \in Sessions :
          (spc[s] = "build" /\ sframe[s].sawRow) => sframe[s].head = dbHead
    /\ LET es == pg_get_all_entries
       IN  \A i \in 1..Len(es) :
             /\ es[i].sequence_number = i - 1
             /\ es[i].previous_hash =
                    (IF i > 1 THEN es[i - 1].entry_hash ELSE Zeros64)
    /\ Len(pg_get_all_entries) = Cardinality(dbEntries)

C4_Witness ==
    \E s, u \in Sessions :
        /\ s # u
        /\ InSection(s)
        /\ spc[s] = "commit"
        /\ spc[u] = "select"
        /\ Cardinality(dbEntries) >= 1

\* C5: when two callers concurrently append transactions with the same
\* content hash, exactly one gets Ok and the ledger holds one entry for it.
C5_ExactlyOneWins ==
    /\ \A t, u \in Threads :
          (t # u /\ pc[t] = "idle" /\ pc[u] = "idle" /\ result[t].ok /\ result[u].ok)
            => result[t].entry.transaction_hash # result[u].entry.transaction_hash
    /\ \A i, j \in 1..Len(entries) :
          i < j => entries[i].transaction_hash # entries[j].transaction_hash

\* C6: a save_transaction that returns Err leaves the head, the ledger
\* entries and the stored transactions as they were and holds no lock or
\* pending row afterwards; no committed state has a transaction without its
\* entry or an entry without its transaction.
C6_FailureRollsBack ==
    /\ [](/\ \A r \in dbTxs : \E m \in dbEntries :
                 m.transaction_id = r.id /\ m.transaction_hash = r.content_hash
          /\ \A m \in dbEntries : \E r \in dbTxs : m.transaction_id = r.id
          /\ Cardinality(dbTxs) = Cardinality(dbEntries))
    /\ [][ \A s \in Sessions :
             (spc[s] # "idle" /\ spc'[s] = "idle" /\ ~sresult'[s].ok)
               => /\ dbHead' = dbHead
                  /\ dbEntries' = dbEntries
                  /\ dbTxs' = dbTxs
                  /\ headLock' # s
                  /\ headInsertBy' # s
          ]_vars

C6_Witness ==
    \E s \in Sessions :
        /\ spc[s] = "idle"
        /\ sresult[s] = Err("Duplicate idempotency key")
        /\ Cardinality(dbEntries) >= 1
        /\ dbHead.last_sequence_number = Cardinality(dbEntries) - 1

\* C7: verify_chain returns Ok for the empty sequence and for the entries of
\* a store after any sequence of successful and rejected appends.
C7_ValidChainVerifies ==
    /\ verify_chain(<<>>) = IntegrityOk
    /\ AllIdle => verify_chain(entries) = IntegrityOk
    /\ (auPc = "verified" /\ auTamper = NoTamper) => auResult = IntegrityOk

C7_Witness ==
    /\ auPc = "verified"
    /\ auTamper = NoTamper
    /\ Len(auInput) >= 2
    /\ calls > Len(auInput)

\* C8: changing one field of one entry of a valid chain makes verify_chain
\* fail at that entry's position: sequence_gap when the sequence number was
\* changed, entry_hash_mismatch otherwise.
C8_TamperDetected ==
    (auPc = "verified" /\ auTamper # NoTamper)
      => /\ ~auResult.ok
         /\ auResult.sequence_number = auTamper.index
         /\ auResult.violation_type =
               (IF auTamper.field = "sequence_number"
                THEN "sequence_gap" ELSE "entry_hash_mismatch")

C8_Witness ==
    /\ auPc = "verified"
    /\ auTamper.field = "timestamp"
    /\ auTamper.index = 0
    /\ Len(auInput) >= 2
    /\ auResult.violation_type = "entry_hash_mismatch"

\* C9: the ledger is append-only: every step keeps the entries read so far
\* at their positions, unchanged, under entries and get_entry.
C9_AppendOnly ==
    [][ /\ Len(entries') >= Len(entries)
        /\ SubSeq(entries', 1, Len(entries)) = entries
        /\ \A i \in 1..Len(entries) :
              get_entry(entries', i - 1) = Ok(entries[i])
      ]_vars

C9_Witness ==
    /\ Len(entries) >= 2
    /\ \E t \in Threads : pc[t] = "idle" /\ result[t].ok

\* C10: a reader running in parallel with an append never sees an entry in
\* the entry list while contains() for its transaction is false.
C10_ConsistentSnapshot ==
    rdPc = "done"
      => ((\E i \in 1..Len(rdEntries) :
              rdEntries[i].transaction_hash = content_hash(rdTx))
            => rdContains)

\* ---------------------------------------------------------------- C12
\* the records of the content a parser cannot turn into a transaction; a
\* fixed-width line that is blank or not a detail record is passed over and
\* is none
FailingRecords(format, content) ==
    {i \in DOMAIN content.records :
        LET r == RecordResult(format, content, i, 0)
        IN  /\ ~r.ok
            /\ ~(format = "cnab" /\ r.reason = "Not a detail record")
            /\ ~(format = "cnab" /\ content.records[i].line_len = 0)}
InLayout(format, content) ==
    \/ format = "cnab" /\ content.layout = "cnab"
    \/ format = "csv" /\ content.layout \in {"csv", "widecsv"}
    \/ format = "json" /\ content.layout = "json"
ParsedIds(txs) == [i \in DOMAIN txs |-> txs[i].raw_line]
RECURSIVE ExpectedLines(_, _, _)
ExpectedLines(format, content, i) ==
    IF i > Len(content.records) THEN <<>>
    ELSE LET r == RecordResult(format, content, i, 0)
         IN  (IF r.ok THEN <<r.tx.raw_line>> ELSE <<>>)
             \o ExpectedLines(format, content, i + 1)

\* C12: each parser is all-or-nothing.  When a record of the input fails to
\* parse the parser returns Err carrying the number of the first failing
\* record and returns no transaction; it returns Ok only when every record
\* parsed, and then with one transaction per record, in the order of the file.
C12_ParsersAllOrNothing ==
    (prFormat # "none" /\ prContent.records # <<>> /\ InLayout(prFormat, prContent)) =>
        LET failing == FailingRecords(prFormat, prContent)
        IN  /\ failing # {} =>
                /\ ~prResult.ok
                /\ prResult.txs = <<>>
                /\ prResult.index =
                     RecordNumber(prFormat,
                                  CHOOSE i \in failing : \A j \in failing : i <= j)
            /\ prResult.ok =>
                /\ failing = {}
                /\ ParsedIds(prResult.txs) = ExpectedLines(prFormat, prContent, 1)
            /\ ~prResult.ok => prResult.txs = <<>>

\* a parser has rejected a file whose first record parsed and whose second did not
C12_Witness ==
    /\ prFormat = "csv"
    /\ InLayout(prFormat, prContent)
    /\ Len(prContent.records) = 2
    /\ FailingRecords(prFormat, prContent) = {2}
    /\ ~prResult.ok
    /\ prResult.index = 3
    /\ prResult.txs = <<>>

\* ---------------------------------------------------------------- C11
Formats == {"cnab", "csv", "json"}

\* the FinancialGuards on a transaction; its idempotency key is a UUID by type
PassesFinancialGuards(tx) ==
    /\ guard_positive_amount(tx.amount)
    /\ guard_currency_code(tx.currency)
    /\ guard_cpf_cnpj(tx.document).ok
    /\ guard_bank_code(tx.bank_code)
    /\ guard_settlement_date(tx.settlement_date)

\* the records of the content that parse to a transaction a guard rejects
GuardViolating(format, content) ==
    {i \in DOMAIN content.records :
        LET r == RecordResult(format, content, i, 0)
        IN  r.ok /\ ~PassesFinancialGuards(r.tx)}

\* C11: a batch holding a malformed or guard-violating record is rejected in
\* full: ingest_file returns Err, save_transaction is called for no record
\* of the file, and the ledger's rows and head are what they were before.
C11_BadBatchRejected ==
    (/\ wkPc # "idle"
     /\ ingFormat \in Formats
     /\ FailingRecords(ingFormat, ingFile.content)
          \cup GuardViolating(ingFormat, ingFile.content) # {}) =>
        /\ ~ingOutcome.ok
        /\ wkSaveCalls = 0
        /\ <<dbHead, dbTxs, dbEntries>> = wkBefore

\* ---------------------------------------------------------------- C13
\* C13: ingest_file returns Ok(batch) only if every parsed transaction passes
\* the FinancialGuards (amount, currency, tax-ID checksum, bank code,
\* settlement date, idempotency key); otherwise it returns Err for the first
\* transaction of the batch that fails a guard, and no transaction.
C13_OnlyGuardedBatches ==
    (wkPc # "idle" /\ ingFormat \in Formats) =>
        LET parsed == ParseWith(ingFormat, ingFile.content, 0)
            failing == {i \in DOMAIN parsed.txs : ~PassesFinancialGuards(parsed.txs[i])}
        IN  /\ ingOutcome.ok =>
                \A i \in DOMAIN ingOutcome.txs : PassesFinancialGuards(ingOutcome.txs[i])
            /\ (parsed.ok /\ failing # {}) =>
                /\ ~ingOutcome.ok
                /\ ingOutcome.txs = <<>>
                /\ ingOutcome.index = CHOOSE i \in failing : \A j \in failing : i <= j

\* ---------------------------------------------------------------- C20
\* the format the extension maps to, "none" when it maps to none
ExtensionFormat(ext) ==
    CASE ext \in {<<"c", "n", "a", "b">>, <<"r", "e", "m">>, <<"r", "e", "t">>} -> "cnab"
      [] ext = <<"c", "s", "v">> -> "csv"
      [] ext = <<"j", "s", "o", "n">> -> "json"
      [] OTHER -> "none"

\* the format content sniffing gives, in the order bracket, length, separator
SniffedFormat(content) ==
    CASE content.lead \in {"{", "["} -> "json"
      [] content.lead \notin {"{", "["} /\ content.first_line_len >= 240 -> "cnab"
      [] content.lead \notin {"{", "["} /\ content.first_line_len < 240
           /\ content.first_line_sep -> "csv"
      [] OTHER -> "undetected"

\* C20 as stated: ingest_file selects the parser by the extension mapping when
\* the extension maps to a format, and otherwise by content sniffing (bracket,
\* then first line of 240 characters, then separator), rejecting the file
\* only when nothing matches.
C20_SniffWhenUnmapped ==
    wkPc # "idle" =>
        LET mapped == ExtensionFormat(Lower(ingFile.suffix))
            claimed == IF mapped # "none" THEN mapped ELSE SniffedFormat(ingFile.content)
        IN  IF claimed = "undetected" THEN ~ingOutcome.ok
            ELSE ingFormat = claimed

\* C20 amended: ingest_file rejects with Err, before any detection, a file
\* whose extension is not cnab, rem, ret, csv or json, and selects the parser
\* of the others by the extension mapping; _detect_format itself maps the
\* extension when it maps and otherwise sniffs the content in the order
\* bracket, first line of 240 characters, separator, else fails.
C20_AllowListThenMapping ==
    /\ wkPc # "idle" =>
         LET mapped == ExtensionFormat(Lower(ingFile.suffix))
         IN  IF mapped # "none" THEN ingFormat = mapped
             ELSE /\ ingFormat = "rejected"
                  /\ ~ingOutcome.ok
                  /\ ingOutcome.reason = "extension"
                  /\ wkSaveCalls = 0
    /\ dtFormat # "none" =>
         LET mapped == ExtensionFormat(Lower(dtFile.suffix))
         IN  dtFormat = IF mapped # "none" THEN mapped ELSE SniffedFormat(dtFile.content)

\* a file named .txt that holds a JSON array has been rejected for its extension
C20_Witness ==
    /\ wkPc = "done"
    /\ ingFile.suffix = <<"t", "x", "t">>
    /\ ingFile.content.lead = "["
    /\ ingFormat = "rejected"
    /\ ~ingOutcome.ok

\* ---------------------------------------------------------------- C19
\* C19: the delimited-text parser derives identity from the row: every parse
\* of the same rows (no idempotency key or id supplied) gives transactions
\* with the same id, idempotency key and content hash, so each append of a
\* second ingestion of the file is rejected as a duplicate and the ledger
\* does not grow.
C19_SameRowSameIdentity ==
    /\ (prFormat = "csv" /\ prPrev.ok /\ prResult.ok) =>
         /\ Len(prPrev.txs) = Len(prResult.txs)
         /\ \A i \in DOMAIN prResult.txs :
               /\ prResult.txs[i].id = prPrev.txs[i].id
               /\ prResult.txs[i].idempotency_key = prPrev.txs[i].idempotency_key
               /\ content_hash(prResult.txs[i]) = content_hash(prPrev.txs[i])
    /\ csvIngests >= 2 =>
         /\ size(entries) = csvSize
         /\ (csvIndex > 1 /\ pc[Caller] = "idle") =>
               /\ ~result[Caller].ok
               /\ result[Caller].reason = "Duplicate transaction detected"

\* the file has been ingested twice and the appends of the second ingestion
\* have all returned
C19_Witness ==
    /\ csvIngests = 2
    /\ prPrev.ok
    /\ prResult.ok
    /\ csvIndex > Len(prResult.txs)
    /\ pc[Caller] = "idle"
    /\ ~result[Caller].ok
    /\ size(entries) >= 1

\* ---------------------------------------------------------------- C14
\* C14: reconcile classifies every source transaction, in source order: with
\* a target of the same id the result is the matcher's result for that pair,
\* without one it is unmatched_source carrying the source's content hash.
C14_SourcesClassifiedInOrder ==
    recArgs.called =>
        /\ Len(recReport.results) >= Len(recArgs.source)
        /\ \A i \in DOMAIN recArgs.source :
              LET src == recArgs.source[i]
                  res == recReport.results[i]
                  same == {j \in DOMAIN recArgs.target : recArgs.target[j].id = src.id}
              IN  IF same # {}
                  THEN /\ \E j \in same :
                             res = compare(recArgs.matcher, src, recArgs.target[j])
                       /\ res.status \in {"matched", "discrepancy"}
                  ELSE /\ res.status = "unmatched_source"
                       /\ res.source_hash = content_hash(src)

\* a reconcile call whose first source has no target and whose second has one
C14_Witness ==
    /\ recArgs.called
    /\ Len(recArgs.source) = 2
    /\ recReport.results[1].status = "unmatched_source"
    /\ recReport.results[2].status = "discrepancy"

\* ---------------------------------------------------------------- C15
SourceIds == {recArgs.source[i].id : i \in DOMAIN recArgs.source}
TargetIds == {recArgs.target[i].id : i \in DOMAIN recArgs.target}
\* the results that report a target of the given id as unmatched
ReportedUnmatched(id) ==
    {i \in DOMAIN recReport.results :
        /\ recReport.results[i].status = "unmatched_target"
        /\ \E j \in DOMAIN recArgs.target :
              /\ recArgs.target[j].id = id
              /\ recReport.results[i].target_hash = content_hash(recArgs.target[j])}

\* C15: every target id no source matched is reported exactly once as
\* unmatched_target and no matched target id is; total_records is the number
\* of results and the sum of the four totals; the number of results is the
\* number of sources plus the number of distinct target ids absent from the
\* source.
C15_UnmatchedTargetsAndTotals ==
    recArgs.called =>
        /\ \A id \in TargetIds \ SourceIds : Cardinality(ReportedUnmatched(id)) = 1
        /\ \A id \in TargetIds \cap SourceIds : ReportedUnmatched(id) = {}
        /\ recReport.total_records = Len(recReport.results)
        /\ recReport.total_records =
             recReport.matched + recReport.unmatched_source
             + recReport.unmatched_target + recReport.discrepancies
        /\ Len(recReport.results) =
             Len(recArgs.source) + Cardinality(TargetIds \ SourceIds)

\* a reconcile call with one target matched and another, given twice, left over
C15_Witness ==
    /\ recArgs.called
    /\ TargetIds \cap SourceIds # {}
    /\ TargetIds \ SourceIds # {}
    /\ recReport.unmatched_target = 1
    /\ recReport.total_records = Len(recArgs.source) + 1

\* ---------------------------------------------------------------- C16
\* the fields on which the exact matcher tells the pair apart, in its order
ExactDiffering(source, target) ==
    SelectSeq(<<"currency", "amount", "settlement_date", "document">>,
              LAMBDA f :
                  \/ f = "currency" /\ source.currency # target.currency
                  \/ f = "amount" /\ source.amount # target.amount
                  \/ f = "settlement_date"
                       /\ source.settlement_date # target.settlement_date
                  \/ f = "document" /\ source.document # <<>> /\ target.document # <<>>
                       /\ source.document # target.document)
FieldNames(discrepancies) == [i \in DOMAIN discrepancies |-> discrepancies[i].field_name]

\* C16: ExactMatcher.compare returns matched with no discrepancy iff currency,
\* amount and settlement date are equal and the documents, when both are
\* non-empty, are equal; otherwise it returns discrepancy with one entry per
\* differing field in the order currency, amount, settlement_date, document,
\* the amount entry carrying source.amount - target.amount with its sign.
C16_ExactMatcher ==
    (cmpArgs.called /\ cmpArgs.matcher.kind = "exact") =>
        LET source == cmpArgs.source
            target == cmpArgs.target
            differing == ExactDiffering(source, target)
        IN  /\ (cmpResult.status = "matched" /\ cmpResult.discrepancies = <<>>)
                 <=> differing = <<>>
            /\ differing # <<>> =>
                 /\ cmpResult.status = "discrepancy"
                 /\ FieldNames(cmpResult.discrepancies) = differing
                 /\ \A i \in DOMAIN cmpResult.discrepancies :
                       cmpResult.discrepancies[i].field_name = "amount" =>
                           cmpResult.discrepancies[i].difference
                             = <<source.amount - target.amount>>

\* the exact matcher has compared 100.00 against 90.00, all else equal:
\* one discrepancy, on the amount, with difference 10.00
C16_Witness ==
    /\ cmpArgs.called
    /\ cmpArgs.matcher.kind = "exact"
    /\ cmpArgs.source.amount = 10000
    /\ cmpArgs.target.amount = 9000
    /\ cmpResult.status = "discrepancy"
    /\ FieldNames(cmpResult.discrepancies) = <<"amount">>
    /\ cmpResult.discrepancies[1].difference = <<1000>>

\* ---------------------------------------------------------------- C17
\* C17: DateToleranceMatcher(N).compare returns matched iff currency and
\* amount are equal and the settlement dates are at most N days apart; dates
\* more than N days apart give a settlement_date discrepancy, and a currency
\* or amount difference gives a discrepancy even within the tolerance.
C17_DateTolerance ==
    (cmpArgs.called /\ cmpArgs.matcher.kind = "tolerance") =>
        LET source == cmpArgs.source
            target == cmpArgs.target
            N == cmpArgs.matcher.tolerance_days
            apart == IF source.settlement_date >= target.settlement_date
                     THEN source.settlement_date - target.settlement_date
                     ELSE target.settlement_date - source.settlement_date
            names == {cmpResult.discrepancies[i].field_name :
                         i \in DOMAIN cmpResult.discrepancies}
        IN  /\ cmpResult.status = "matched" <=>
                 (/\ source.currency = target.currency
                  /\ source.amount = target.amount
                  /\ apart <= N)
            /\ cmpResult.status \in {"matched", "discrepancy"}
            /\ apart > N <=> "settlement_date" \in names
            /\ source.currency # target.currency <=> "currency" \in names
            /\ source.amount # target.amount <=> "amount" \in names

\* dates exactly N = 1 day apart have matched although the documents differ
C17_Witness ==
    /\ cmpArgs.called
    /\ cmpArgs.matcher = DateToleranceMatcher(1)
    /\ cmpArgs.source.settlement_date = 11
    /\ cmpArgs.target.settlement_date = 10
    /\ cmpArgs.source.document # cmpArgs.target.document
    /\ cmpResult.status = "matched"

\* ---------------------------------------------------------------- C18
HashedFields == {"id", "type", "amount", "currency", "source_account",
                 "target_account", "document", "settlement_date",
                 "idempotency_key", "bank_code"}
AgreeOnHashedFields(a, b) == \A f \in HashedFields : a[f] = b[f]

IsDetail(line) == line.line_len = 240 /\ line.record_type = "3"
IsPassedOver(line) == line.line_len = 240 /\ line.record_type # "3"
IsMisshapen(line) == line.line_len # 0 /\ line.line_len # 240
IsUnsupported(line) == IsDetail(line) /\ line.segment \notin {"A", "J"}
WithoutPassedOver(content) ==
    Content("cnab", SelectSeq(content.records, LAMBDA line : ~IsPassedOver(line)))

\* C21: in the fixed-width parser only lines with '3' at position 7 are
\* detail records.  Every other 240-character line is skipped: it yields no
\* transaction, is never the line an error names, and the file parses as it
\* does without those lines.  A non-empty line that is not 240 characters
\* long, or a detail line whose segment is neither 'A' nor 'J', makes
\* parse_cnab_file return Err for the whole file.
C21_CnabDetailLines ==
    (prFormat = "cnab" /\ prContent.layout = "cnab") =>
        LET lines == prContent.records
            without == parse_cnab_file(WithoutPassedOver(prContent), 0)
        IN  /\ prResult.ok = without.ok
            /\ ParsedIds(prResult.txs) = ParsedIds(without.txs)
            /\ Len(prResult.txs) <= Cardinality({i \in DOMAIN lines : IsDetail(lines[i])})
            /\ \A k \in DOMAIN prResult.txs :
                  \E i \in DOMAIN lines :
                      IsDetail(lines[i]) /\ prResult.txs[k].raw_line = RawLine(lines[i])
            /\ (~prResult.ok /\ prResult.index \in DOMAIN lines)
                  => ~IsPassedOver(lines[prResult.index])
            /\ (\E i \in DOMAIN lines : IsMisshapen(lines[i]) \/ IsUnsupported(lines[i]))
                  => (~prResult.ok /\ prResult.txs = <<>>)

\* a header line has been skipped and the detail line after it parsed
C21_Witness ==
    /\ prFormat = "cnab"
    /\ prContent.layout = "cnab"
    /\ Len(prContent.records) = 2
    /\ IsPassedOver(prContent.records[1])
    /\ IsDetail(prContent.records[2])
    /\ prResult.ok
    /\ Len(prResult.txs) = 1

\* ---------------------------------------------------------------- C22
\* the modulo-11 check digit of the leading digits under the given weights
RECURSIVE Mod11Total(_, _)
Mod11Total(digits, weights) ==
    IF weights = <<>> THEN 0
    ELSE (DigitValue(Head(digits)) * Head(weights))
         + Mod11Total(Tail(digits), Tail(weights))
Mod11Digit(digits, weights) ==
    LET remainder == Mod11Total(digits, weights) % 11
    IN  IF remainder < 2 THEN 0 ELSE 11 - remainder
\* the rule on the digits-only form of a document
ValidTaxId(digits) ==
    /\ digits # <<>>
    /\ \A i \in DOMAIN digits : digits[i] \in {Digits[d] : d \in DOMAIN Digits}
    /\ \E i \in DOMAIN digits : digits[i] # digits[1]
    /\ \/ /\ Len(digits) = 11
          /\ DigitValue(digits[10]) = Mod11Digit(digits, <<10, 9, 8, 7, 6, 5, 4, 3, 2>>)
          /\ DigitValue(digits[11]) = Mod11Digit(digits, <<11, 10, 9, 8, 7, 6, 5, 4, 3, 2>>)
       \/ /\ Len(digits) = 14
          /\ DigitValue(digits[13]) =
               Mod11Digit(digits, <<5, 4, 3, 2, 9, 8, 7, 6, 5, 4, 3, 2>>)
          /\ DigitValue(digits[14]) =
               Mod11Digit(digits, <<6, 5, 4, 3, 2, 9, 8, 7, 6, 5, 4, 3, 2>>)

\* the four documents the claim names
ClaimedDocuments ==
    /\ guard_cpf_cnpj(<<"5", "2", "9", "9", "8", "2", "2", "4", "7", "2", "5">>).ok
    /\ guard_cpf_cnpj(<<"5", "2", "9", ".", "9", "8", "2", ".", "2", "4", "7", "-",
                        "2", "5">>).value
         = <<"5", "2", "9", "9", "8", "2", "2", "4", "7", "2", "5">>
    /\ ~guard_cpf_cnpj(<<"1", "2", "3", "4", "5", "6", "7", "8", "9", "0", "0">>).ok
    /\ ~guard_cpf_cnpj(<<"1", "1", "1", "1", "1", "1", "1", "1", "1", "1", "1">>).ok

\* C22 as stated: guard_cpf_cnpj accepts an input iff, after removing '.',
\* '-' and '/', it is only digits, not one digit repeated, and 11 or 14
\* digits ending in its two modulo-11 check digits; it returns the digits.
C22_AcceptsAfterRemovingPunctuation ==
    gdResult.called =>
        /\ gdResult.ok <=> ValidTaxId(RemoveFormatting(gdDocument))
        /\ gdResult.ok => gdResult.value = RemoveFormatting(gdDocument)
        /\ ClaimedDocuments

\* C22, amended: guard_cpf_cnpj accepts an input iff, after stripping the
\* surrounding whitespace and removing '.', '-' and '/', it is only digits,
\* not one digit repeated, and 11 or 14 digits ending in its two modulo-11
\* check digits; it returns that digits-only form, so "52998224725" and
\* "529.982.247-25" pass and "12345678900" and "11111111111" fail.
C22_AcceptsAfterStripping ==
    gdResult.called =>
        /\ gdResult.ok <=> ValidTaxId(RemoveFormatting(strip(gdDocument)))
        /\ gdResult.ok => gdResult.value = RemoveFormatting(strip(gdDocument))
        /\ ClaimedDocuments

\* a valid CPF between two blanks has been accepted and returned bare
C22_Witness ==
    /\ gdResult.called
    /\ gdDocument = <<" ", "5", "2", "9", "9", "8", "2", "2", "4", "7", "2", "5", " ">>
    /\ gdResult.ok
    /\ gdResult.value = <<"5", "2", "9", "9", "8", "2", "2", "4", "7", "2", "5">>

\* ---------------------------------------------------------------- C23
\* n written with the given number of digits, zeros in front
RECURSIVE ZeroPadded(_, _)
ZeroPadded(n, width) ==
    IF width = 0 THEN <<>>
    ELSE ZeroPadded(n \div 10, width - 1) \o <<Digits[(n % 10) + 1]>>
\* the date field of a calendar date
DDMMYYYY(year, month, day) ==
    ZeroPadded(day, 2) \o ZeroPadded(month, 2) \o ZeroPadded(year, 4)
AllDigits(text) ==
    text # <<>> /\ \A i \in DOMAIN text : text[i] \in {Digits[d] : d \in DOMAIN Digits}
FieldYears == {2024, 2025}

NumberFaults(es) == {i \in 0..(Len(es) - 1) : es[i + 1].sequence_number # i}
HashFaults(es) == {i \in 0..(Len(es) - 1) : es[i + 1].entry_hash # compute_hash(es[i + 1])}
LinkFaults(es) ==
    {i \in 0..(Len(es) - 1) :
        es[i + 1].previous_hash # (IF i = 0 THEN GENESIS_HASH ELSE es[i].entry_hash)}
Least(S) == CHOOSE i \in S : \A j \in S : i <= j
\* the violation the claim says is reported: kind and position
FirstViolation(es) ==
    IF NumberFaults(es) # {} THEN <<"sequence_gap", Least(NumberFaults(es))>>
    ELSE IF HashFaults(es) \cup LinkFaults(es) = {} THEN <<"none", -1>>
    ELSE LET i == Least(HashFaults(es) \cup LinkFaults(es))
         IN  IF i \in HashFaults(es) THEN <<"entry_hash_mismatch", i>>
             ELSE <<"chain_link_broken", i>>

\* C24: verify_chain reports the first violation in a fixed order: a
\* sequence_gap at the smallest position whose number is wrong, before any
\* hash is looked at; otherwise the smallest position with a hash or link
\* fault, entry_hash_mismatch before chain_link_broken; and it leaves the
\* entries as they are.
C24_FirstViolationOrder ==
    [][(auPc # "verified" /\ auPc' = "verified") =>
          /\ auInput' = auInput
          /\ entries' = entries
          /\ <<auResult'.violation_type, auResult'.sequence_number>>
               = FirstViolation(auInput)
          /\ auResult'.ok <=> FirstViolation(auInput)[1] = "none"]_vars

\* a sequence whose first entry has a stale hash and whose second has a wrong
\* number has been reported as a sequence gap at position 1
C24_Witness ==
    /\ auPc = "verified"
    /\ Len(auInput) >= 2
    /\ 0 \in HashFaults(auInput)
    /\ NumberFaults(auInput) = {1}
    /\ auResult.violation_type = "sequence_gap"
    /\ auResult.sequence_number = 1

\* ---------------------------------------------------------------- C25
\* the committed entry with the highest sequence number
LastCommitted ==
    CHOOSE m \in dbEntries : \A q \in dbEntries : q.sequence_number <= m.sequence_number

\* C25: in every committed state of the durable ledger the head agrees with
\* the entries: last_sequence_number is the number of entries minus 1 and
\* last_entry_hash is the entry hash of the entry with the highest sequence
\* number, -1 and the genesis hash when there is none; and the head changes
\* only in the commit of a save_transaction that returns Ok, together with
\* the insert of exactly one entry.
C25_HeadAgreesWithEntries ==
    /\ [](/\ dbHead.last_sequence_number = Cardinality(dbEntries) - 1
          /\ dbHead.last_entry_hash =
               (IF dbEntries = {} THEN Zeros64 ELSE LastCommitted.entry_hash)
          /\ dbEntries # {} =>
               (dbHead.exists /\ LastCommitted.sequence_number = Cardinality(dbEntries) - 1)
          /\ dbEntries = {} => ~dbHead.exists)
    /\ [][ dbHead' # dbHead =>
             /\ \E s \in Sessions :
                   /\ spc[s] = "commit"
                   /\ spc'[s] = "idle"
                   /\ sresult'[s].ok
                   /\ dbEntries' = dbEntries \cup {LedgerEntryModel(sresult'[s].entry,
                                                                   sframe[s].tx.id)}
             /\ Cardinality(dbEntries') = Cardinality(dbEntries) + 1
          ]_vars

\* two saves have committed: the head carries sequence number 1 and the hash
\* of the second entry
C25_Witness ==
    /\ Cardinality(dbEntries) = 2
    /\ dbHead.exists
    /\ dbHead.last_sequence_number = 1
    /\ dbHead.last_entry_hash = LastCommitted.entry_hash
    /\ \A s \in Sessions : spc[s] = "idle"

\* ---------------------------------------------------------------- C26
\* the one session and the one caller that drive the two repositories
RepoSession == CHOOSE s \in Sessions : \A q \in Sessions : s <= q

\* both repositories have returned from every call made so far
ReposQuiet == calls % 2 = 0 /\ pc[Caller] = "idle" /\ spc[RepoSession] = "idle"

\* PostgresLedgerRepository.save_transaction(tx) is called
RepoSavePg(tx) ==
    /\ AllIdle
    /\ calls % 2 = 0
    /\ PgCall(RepoSession, tx)

\* InMemoryLedgerRepository.save_transaction of the same transaction is called
RepoSaveMemory ==
    /\ calls % 2 = 1
    /\ spc[RepoSession] = "select"
    /\ Call(Caller, sframe[RepoSession].tx, 2 * MaxSaves)

\* the same series of save_transaction calls made on an in-memory and on a
\* PostgreSQL repository, one call at a time on each
NextRepos ==
    \/ \E tx \in PgInputs : RepoSavePg(tx)
    \/ RepoSaveMemory
    \/ CheckDuplicate(Caller)
    \/ ReadLastHash(Caller)
    \/ ReadSizeAndCreate(Caller)
    \/ InsertEntry(Caller)
    \/ AddHashAndReturn(Caller)
    \/ calls % 2 = 0 /\ PgSelectHeadForUpdate(RepoSession)
    \/ calls % 2 = 0 /\ PgCreateHead(RepoSession)
    \/ calls % 2 = 0 /\ PgBuild(RepoSession)
    \/ calls % 2 = 0 /\ PgCommit(RepoSession)

SpecRepos == Init /\ [][NextRepos]_vars

\* the position of the entry a previous_hash points at, -1 for the genesis hash
LinkOf(previous_hash, es) ==
    IF previous_hash = GENESIS_HASH THEN -1
    ELSE LET at == {i \in DOMAIN es : es[i].entry_hash = previous_hash}
         IN  IF at = {} THEN -2 ELSE es[CHOOSE i \in at : TRUE].sequence_number

\* outcome, sequence number and link of a returned result
Observed(r, es) ==
    IF r.ok THEN <<TRUE, r.entry.sequence_number, LinkOf(r.entry.previous_hash, es)>>
    ELSE <<FALSE, -1, -1>>

\* C26: after the same sequential series of calls the in-memory and the
\* PostgreSQL repository have returned the same Ok/Err outcome, sequence number
\* and previous-hash link from save_transaction, and get_entry,
\* get_all_entries and contains answer alike on both.
C26_RepositoriesAgree ==
    ReposQuiet =>
        /\ Observed(result[Caller], entries)
             = Observed(sresult[RepoSession], pg_get_all_entries)
        /\ \A n \in 0..MaxSaves :
              Observed(get_entry(entries, n), entries)
                = Observed(pg_get_entry(n), pg_get_all_entries)
        /\ Len(entries) = Len(pg_get_all_entries)
        /\ \A i \in DOMAIN entries :
              i \in DOMAIN pg_get_all_entries =>
                 /\ entries[i].sequence_number = pg_get_all_entries[i].sequence_number
                 /\ entries[i].transaction_hash = pg_get_all_entries[i].transaction_hash
                 /\ LinkOf(entries[i].previous_hash, entries)
                      = LinkOf(pg_get_all_entries[i].previous_hash, pg_get_all_entries)
        /\ \A tx \in PgInputs :
              contains_transaction(transaction_hashes, tx) = pg_contains(tx)

\* ---------------------------------------------------------------- C27
\* the transaction of session s shares no id and no idempotency key with a
\* committed row or with the transaction of a call in flight
FreshFor(s) ==
    /\ \A r \in dbTxs : r.id # sframe[s].tx.id
                        /\ r.idempotency_key # sframe[s].tx.idempotency_key
    /\ \A q \in Sessions \ {s} :
          spc[q] # "idle" =>
             /\ sframe[q].tx.id # sframe[s].tx.id
             /\ sframe[q].tx.idempotency_key # sframe[s].tx.idempotency_key

\* C27: of the first two save_transaction calls on a durable ledger without a
\* head row, made by two writers with distinct, non-duplicate transactions,
\* each returns Ok (the connection holding), with sequence number 0 or 1, the
\* entry with number 1 linked to the committed entry 0; neither is rejected
\* for having tried to create the head row as well.
C27_BothFirstSavesSucceed ==
    [][\A s \in Sessions :
          (/\ calls <= 2
           /\ spc[s] # "idle"
           /\ spc'[s] = "idle"
           /\ FreshFor(s)
           /\ sresult'[s].reason # "Persistence failure")
          => /\ sresult'[s].ok
             /\ sresult'[s].entry.sequence_number = Cardinality(dbEntries)
             /\ sresult'[s].entry.sequence_number \in {0, 1}
             /\ sresult'[s].entry.previous_hash =
                  (IF dbEntries = {} THEN Zeros64 ELSE LastCommitted.entry_hash)
      ]_vars

\* ---------------------------------------------------------------- C28
\* two rows that are identical except for the description column
OnlyDescriptionDiffers(a, b) ==
    /\ a # b
    /\ [a EXCEPT !.description = <<>>] = [b EXCEPT !.description = <<>>]

\* the entries of the ledger made from transaction tx
EntriesOf(tx) ==
    {i \in DOMAIN entries : entries[i].transaction_hash = content_hash(tx)}

\* C28: the description never affects identity or dedup of ingested records:
\* two rows of a delimited file that are identical except for the description
\* column yield transactions with the same id, idempotency key and content
\* hash, so the ledger never holds an entry for each of them.
C28_DescriptionNotIdentity ==
    (prFormat = "csv" /\ prResult.ok) =>
        \A i, j \in DOMAIN prResult.txs :
            OnlyDescriptionDiffers(prContent.records[i], prContent.records[j]) =>
                /\ prResult.txs[i].id = prResult.txs[j].id
                /\ prResult.txs[i].idempotency_key = prResult.txs[j].idempotency_key
                /\ content_hash(prResult.txs[i]) = content_hash(prResult.txs[j])
                /\ Cardinality(EntriesOf(prResult.txs[i])
                                 \cup EntriesOf(prResult.txs[j])) <= 1

\* ---------------------------------------------------------------- C29
\* the transaction_hash values of the stored entries
StoredHashes == {entries[i].transaction_hash : i \in DOMAIN entries}

\* C29: between the operations of a LedgerStore used by one caller at a time,
\* the known-hash set equals the set of transaction_hash values of the stored
\* entries, no two entries share a transaction_hash, and
\* contains_transaction(tx) is true exactly for the transactions hashing to a
\* stored entry; the known-hash set grows only when an append returns Ok,
\* by the hash of the entry returned, and an append returns Ok exactly when
\* the hash was not known.
C29_KnownHashesAreStoredHashes ==
    /\ [](pc[Caller] = "idle" =>
            /\ transaction_hashes = StoredHashes
            /\ Cardinality(StoredHashes) = Len(entries)
            /\ \A tx \in StoreInputs :
                  contains_transaction(transaction_hashes, tx)
                    <=> \E i \in DOMAIN entries :
                           entries[i].transaction_hash = content_hash(tx))
    /\ [][ /\ transaction_hashes' # transaction_hashes =>
                /\ pc[Caller] # "idle" /\ pc'[Caller] = "idle"
                /\ result'[Caller].ok
                /\ transaction_hashes' =
                     transaction_hashes \cup {result'[Caller].entry.transaction_hash}
           /\ (pc[Caller] # "idle" /\ pc'[Caller] = "idle") =>
                /\ result'[Caller].ok =>
                     result'[Caller].entry.transaction_hash \notin transaction_hashes
                /\ ~result'[Caller].ok =>
                     /\ frame[Caller].tx_hash \in transaction_hashes
                     /\ transaction_hashes' = transaction_hashes
                     /\ entries' = entries
         ]_vars

\* two appends returned Ok and a third, of a content already stored, was
\* rejected: the store knows exactly the two hashes of its two entries
C29_Witness ==
    /\ pc[Caller] = "idle"
    /\ calls = 3
    /\ Len(entries) = 2
    /\ ~result[Caller].ok
    /\ transaction_hashes = StoredHashes
    /\ Cardinality(transaction_hashes) = 2

\* ---------------------------------------------------------------- C30
\* The event loop resumes every coroutine whose await has completed, and the
\* database grants a released row lock, or ends the wait on a pending insert,
\* to a session that waits for it: each session's step is taken if it stays
\* possible, its lock acquisition if it is possible again and again.
PgFairness ==
    \A s \in Sessions :
        /\ SF_vars(PgSelectHeadForUpdate(s))
        /\ SF_vars(PgCreateHead(s))
        /\ WF_vars(PgBuild(s))
        /\ WF_vars(PgCommit(s))

SpecPgFair == Init /\ [][NextPg]_vars /\ PgFairness

\* C30: the append critical section never blocks indefinitely: under fair
\* scheduling every save_transaction call returns Ok or Err, so a session
\* that waits for the head gets past the wait; the head is free of lock and
\* pending insert again and again; and no session that has returned holds
\* the lock or a pending insert of the head.
C30_EveryCallReturns ==
    /\ \A s \in Sessions :
          (spc[s] # "idle") ~> (spc[s] = "idle" /\ sresult[s].reason # "none")
    /\ []<>(headLock = 0 /\ headInsertBy = 0)
    /\ [](\A s \in Sessions :
             spc[s] = "idle" => headLock # s /\ headInsertBy # s)

\* a writer waits for the head row while another holds its lock
C30_Witness ==
    \E s, q \in Sessions :
        /\ s # q
        /\ spc[s] = "select"
        /\ dbHead.exists
        /\ headLock = q
        /\ spc[q] \in {"build", "commit"}

====
